---- MODULE Spec2Model ----
(***************************************************************************)
(* The FSM builder of src/src/utils/fsm.ts (createFSMBuilder) as a state   *)
(* machine: the graph store (fsmState), id allocation, the edge registry,  *)
(* the abort-controller scoped listeners on the svg element, the pointer   *)
(* gestures, the rendered view (mask, edge geometry, start marker) and the *)
(* debounced onChange notification.                                        *)
(*                                                                         *)
(* Abstractions.  A node id "node-k" is the integer k.  Canvas points are  *)
(* [x, y] in px on a grid of columns and rows.  Nodes are created and      *)
(* dragged along the line y = 0 (every chord is horizontal, so unit        *)
(* vectors stay integral); the pointer of an edge or link gesture ranges   *)
(* over the whole grid.  A label text is an index, 0 being the empty       *)
(* string.  An optional value (start, rotation) is a set with at most one  *)
(* element.  The rendered geometry of an edge is represented by the inputs *)
(* computeEdgeGeom read when it was last computed.  A session handles at   *)
(* most MaxEvents input events; timer and animation-frame callbacks run    *)
(* between them in any order.  The readonly option and the validation      *)
(* options are fixed at construction.  A validation pattern rejects the    *)
(* label text MaxLabel; a validator callback is given by what it answers   *)
(* for the empty and for a non-empty text (true, false, a message, a       *)
(* throw).  The mask is the list of its circle elements, each with the     *)
(* time it was created.  The curve engine computes in fixed point.  A      *)
(* click carries its e.detail where a handler reads it.  An exception a    *)
(* handler does not catch is recorded in notes.  An input pattern is given *)
(* by the texts in which RegExp test finds a match and the texts it        *)
(* matches as a whole.  The preview of a link drag is the curve            *)
(* parameters it was last drawn from.                                      *)
(*                                                                         *)
(* Around the editor: the identity of the object fsmState is bound to and  *)
(* a second editor (the default initialState of the module is one          *)
(* object); the stepper of src/src/components/FsmBuilder.vue, whose label  *)
(* texts 1..5 stand for the conditions a, b, a+b, 1 and 0; and the         *)
(* index-based format of src/src/utils/fsmHelpers.ts, with hypot rounded   *)
(* down to whole px.                                                       *)
(***************************************************************************)
EXTENDS Integers, Sequences, FiniteSets, TLC

\* ---------------------------------------------------------------- bounds
MaxNodeId == 2
MaxEdgeId == 2
MaxCoord == 1
MaxY == 1
MaxLabel == 1
MaxOffset == 1
MaxEvents == 3
MaxInput == 2
Nudge == 10
Overlap == 20

\* defaultFSMOptions.defaultRadius
defaultRadius == 35

NodeIds == 0..MaxNodeId
EdgeIds == 0..MaxEdgeId
\* Pointer coordinates in px: columns 200 px apart, rows 50 px apart.
Coords == {200 * i : i \in 0..MaxCoord}
Ys == {50 * j : j \in (0 - MaxY)..MaxY}
Offsets == {50 * j : j \in (0 - MaxOffset)..MaxOffset}
Labels == 0..MaxLabel
Points == [x : Coords, y : Ys]
\* The pointer of an edge drag also visits points Nudge px off the grid: a movement
\* below the threshold that tells a click from a drag.
DragPoints == Points \cup {[x |-> p.x, y |-> p.y + Nudge] : p \in Points}
\* The offsets an edge drag may produce.
DragOffsets == (0 - (50 * MaxOffset + Nudge))..(50 * MaxOffset + Nudge)
LinePoints == {p \in Points : p.y = 0}
Modes == {"default", "link", "add", "remove"}

VARIABLES
  nodes,                \* fsmState.nodes: id -> FSMNode, its transitions a list of object identities
  keys,                 \* Object.keys(fsmState.nodes): insertion order
  start,                \* fsmState.start: {} (undefined) or {id}
  heap,                 \* the FSMTransition objects: identity -> [to, label, offset, rotation]
  nodeId,               \* createNodeId's counter
  edgeId,               \* createEdgeId's counter
  nextObj,              \* identity of the next FSMTransition object literal
  edgeIdToTransition,   \* edge id -> [from, obj]; the controller is live while the entry is
  nodeAbortControllers, \* ids with an (unaborted) AbortController
  listeners,            \* listeners attached to svg for fsm:<id>-update-pos / fsm:<id>-remove
  editMode,             \* fsmContainer.dataset.editMode
  gesture,              \* the pointer gesture in progress (window pointermove/pointerup listeners)
  nodeMoved,            \* initializeNodeInteraction's `moved`, per node closure
  edgeMoved,            \* initializeEdgeInteraction's `moved`, per edge closure
  changeScheduled,      \* node closures whose requestAnimationFrame callback is pending
  timers,               \* pending window.setTimeout callbacks: [id, arg, drag]
  onChangeTimeoutId,    \* 0: undefined, or the id of a timer that has run (clearTimeout ignores both)
  maskShapes,           \* the mask's circles in document order: [id, made, shape]
  edgeGeom,             \* rendered edge groups: data-edge-id -> inputs of the last computeEdgeGeom
  startMarker,          \* [visible, tip]: the start line/arrow
  labelAnchor,          \* data-edge-id -> the anchor the edge's label was last laid out with
  unnotified,           \* history: a committed mutation no onChange call has carried yet
  burst,                \* history: tryOnChange calls since the last timer callback (0, 1, 2 = many)
  frameCalls,           \* history: onChange calls a drag caused, since the last rendered frame
  settle,               \* history: onChange calls since the pointer-up of a node drag
  events,               \* history: the number of input events handled so far
  inputValue,           \* the label inputs in the overlay: field -> input.value
  invalid,              \* the fields runValidation marked invalid -> the message it listed
  readonly,             \* the readonly option the editor was constructed with
  validate,             \* the validate option the editor was constructed with
  initialState,         \* the object fsmState is: the module's default or the caller's own
  peer,                 \* a second editor on the page: its fsmState object and what that holds
  currentNode,          \* the stepper's currentNode: {} (undefined) or {id}
  inputs,               \* the stepper's inputs: variable -> the symbols left
  legacy,               \* the last export in the index-based format, with what it was made from
  focused,              \* history: the editors the last input event's handler called focus() on
  notes                 \* history: what handlers ran into: "TypeError" (uncaught),
                        \* "absent-edge" / "absent-node" (a removal call for an absent id)

vars == <<nodes, keys, start, heap, nodeId, edgeId, nextObj, edgeIdToTransition,
          nodeAbortControllers, listeners, editMode, gesture, nodeMoved, edgeMoved,
          changeScheduled, timers, onChangeTimeoutId, maskShapes, edgeGeom,
          startMarker, labelAnchor, inputValue, invalid, unnotified, burst, frameCalls, settle, events,
          readonly, validate, initialState, peer, currentNode, inputs, legacy,
          focused, notes>>

graphVars == <<nodes, keys, start, heap>>
\* What surrounds the editor: the state object's identity, a second editor, the page's
\* stepper and export.
pageVars == <<initialState, peer, currentNode, inputs, legacy>>
idVars == <<nodeId, edgeId, nextObj>>
viewVars == <<maskShapes, edgeGeom, startMarker, labelAnchor, inputValue, invalid>>

\* ------------------------------------------------------------ small helpers
Min(a, b) == IF a < b THEN a ELSE b
Abs(a) == IF a < 0 THEN 0 - a ELSE a
Sign(a) == IF a > 0 THEN 1 ELSE IF a < 0 THEN 0 - 1 ELSE 0
Range(s) == {s[i] : i \in DOMAIN s}
Without(s, v) == SelectSeq(s, LAMBDA e : e # v)
Drop(f, S) == [k \in DOMAIN f \ S |-> f[k]]
Put(f, k, v) == [j \in DOMAIN f \cup {k} |-> IF j = k THEN v ELSE f[j]]

NoGesture == [kind |-> "none"]

\* The label inputs: an edge's editor, a node's inner and outer editor.
EdgeField(e) == [kind |-> "edge", id |-> e]
InnerField(n) == [kind |-> "innerNode", id |-> n]
OuterField(n) == [kind |-> "outerNode", id |-> n]

\* One more input event (pointer, click, context menu, key) of the session is handled.
InputEvent == events < MaxEvents /\ events' = events + 1
NotSettling == [active |-> FALSE]

\* ------------------------------------------------------------------ store
\* The mutable objects a handler and the functions it calls work on.  byDrag is
\* history: the handler is a drag's pointer-move or its animation-frame callback.
\* now tells the elements this handler creates from those created before.
Store ==
  [nodes |-> nodes, keys |-> keys, start |-> start, heap |-> heap,
   edgeId |-> edgeId, nextObj |-> nextObj, reg |-> edgeIdToTransition,
   ctrl |-> nodeAbortControllers, lst |-> listeners,
   timers |-> timers, tid |-> onChangeTimeoutId, burst |-> burst,
   mask |-> maskShapes, geom |-> edgeGeom, marker |-> startMarker,
   anchor |-> labelAnchor,
   inputs |-> inputValue, invalid |-> invalid, ro |-> readonly, cfg |-> validate,
   now |-> events + 1, byDrag |-> FALSE]

\* The objects still referenced from a transition list or from the edge registry.
Reachable(S) ==
  UNION {Range(S.nodes[n].transitions) : n \in DOMAIN S.nodes}
    \cup {S.reg[e].obj : e \in DOMAIN S.reg}

\* What JSON.stringify(fsmState) shows: the nodes with their transitions, and start.
StateValue(ns, st, hp) ==
  [nodes |-> [n \in DOMAIN ns |->
                [ns[n] EXCEPT !.transitions =
                   [i \in DOMAIN ns[n].transitions |-> hp[ns[n].transitions[i]]]]],
   start |-> st]

\* The state a handler leaves behind.  A change of fsmState is a committed mutation.
Commit(S) ==
  /\ nodes' = S.nodes
  /\ keys' = S.keys
  /\ start' = S.start
  /\ heap' = [o \in DOMAIN S.heap \cap Reachable(S) |-> S.heap[o]]
  /\ edgeId' = S.edgeId
  /\ nextObj' = S.nextObj
  /\ edgeIdToTransition' = S.reg
  /\ nodeAbortControllers' = S.ctrl
  /\ listeners' = S.lst
  /\ timers' = S.timers
  /\ onChangeTimeoutId' = S.tid
  /\ burst' = S.burst
  /\ maskShapes' = S.mask
  /\ edgeGeom' = S.geom
  /\ startMarker' = S.marker
  /\ labelAnchor' = S.anchor
  /\ inputValue' = S.inputs
  /\ invalid' = S.invalid
  /\ unnotified' = (unnotified \/ S.nodes # nodes \/ S.start # start \/ S.heap # heap)

\* ------------------------------------------------------ change notification
\* window.setTimeout's return value: an id no pending timer has and that is not
\* the one tryOnChange still holds.
FreshTimerId(pending, held) ==
  CHOOSE i \in 1..(Cardinality(pending) + 2) :
    /\ i # held
    /\ \A t \in pending : t.id # i
    /\ \A j \in 1..(i - 1) : j = held \/ \E t \in pending : t.id = j

\* A faulty tryOnChange: no clearTimeout, the earlier timer stays pending.
tryOnChange_noClear(S) ==
  LET fresh == FreshTimerId(S.timers, S.tid)
  IN [S EXCEPT !.timers = S.timers \cup {[id |-> fresh, arg |-> <<>>, drag |-> S.byDrag]},
               !.tid = fresh,
               !.burst = Min(S.burst + 1, 2)]

\* clearTimeout(onChangeTimeoutId); onChangeTimeoutId = setTimeout(() => onChange(fsmState)).
\* The callback closes over the fsmState reference: arg <<>>; a copy would be <<value>>.
tryOnChange(S) ==
  LET cleared == {t \in S.timers : t.id # S.tid}
      fresh == FreshTimerId(cleared, S.tid)
  IN [S EXCEPT !.timers = cleared \cup {[id |-> fresh, arg |-> <<>>, drag |-> S.byDrag]},
               !.tid = fresh,
               !.burst = Min(S.burst + 1, 2)]

\* --------------------------------------------------------------- id allocation
\* let id = `node-${nodeId++}`; while (id in fsmState.nodes) id = `node-${nodeId++}`
\* Returns [id, nodeId]: the id and the counter after the call.
RECURSIVE ScanNodeId(_, _)
ScanNodeId(live, n) ==
  IF n \in live THEN ScanNodeId(live, n + 1) ELSE [id |-> n, nodeId |-> n + 1]

\* A faulty createNodeId: the counter's value, without the while loop.
createNodeId_noScan(live, n) == [id |-> n, nodeId |-> n + 1]

createNodeId(live, n) == ScanNodeId(live, n)


\* ------------------------------------------------------------------ geometry
\* computeEdgeGeom: what the path, arrow and label of edge id are computed from
\* ("none" where the code would read a property of undefined).
computeEdgeGeom(S, id) ==
  LET from == S.reg[id].from
      t == S.heap[S.reg[id].obj]
  IN IF from \notin DOMAIN S.nodes \/ t.to \notin DOMAIN S.nodes THEN [kind |-> "none"]
     ELSE LET a == S.nodes[from]
              b == S.nodes[t.to]
          IN IF from = t.to
               THEN [kind |-> "self", p0 |-> [x |-> a.x, y |-> a.y], r |-> b.radius,
                     rotation |-> IF t.rotation = {} THEN {0} ELSE t.rotation]
               ELSE [kind |-> "cubic", p0 |-> [x |-> a.x, y |-> a.y],
                     p3 |-> [x |-> b.x, y |-> b.y], r |-> b.radius,
                     offset |-> t.offset]

\* getAutoAnchor: 'left' for a self-loop, else by the sign of the offset.
getAutoAnchor(S, id) ==
  IF S.reg[id].from = S.heap[S.reg[id].obj].to THEN "left"
  ELSE IF S.heap[S.reg[id].obj].offset >= 0 THEN "right" ELSE "left"

\* updateNodeMaskShape
MaskShapeOf(node) == [cx |-> node.x, cy |-> node.y, r |-> node.radius]

\* mask.querySelector(`circle[data-node-id="${id}"]`)?.remove(): the first such circle
RemoveCircle(mask, id) ==
  LET hits == {i \in DOMAIN mask : mask[i].id = id}
  IN IF hits = {} THEN mask
     ELSE LET idx == CHOOSE i \in hits : \A j \in hits : i <= j
          IN SubSeq(mask, 1, idx - 1) \o SubSeq(mask, idx + 1, Len(mask))

\* updateStartMarker: the tip of the start arrow
StartTipOf(node) == [x |-> node.x - node.radius, y |-> node.y]

\* ------------------------------------------------------------------ listeners
\* svg.addEventListener(type, callback, {signal}).  owner/id name the callback's closure;
\* nodeSig and edgeSig are the controllers whose abort detaches the listener.  Adding
\* the same callback twice for one type (a self-loop's update/remove) keeps one listener.
EdgeListeners(id, from, to) ==
  {[type |-> "update-pos", on |-> n, owner |-> "edge", id |-> id,
    nodeSig |-> {n}, edgeSig |-> {id}] : n \in {from, to}}
  \cup
  {[type |-> "remove", on |-> n, owner |-> "edge", id |-> id,
    nodeSig |-> {}, edgeSig |-> {id}] : n \in {from, to}}

MaskListener(id) ==
  [type |-> "update-pos", on |-> id, owner |-> "mask", id |-> id,
   nodeSig |-> {id}, edgeSig |-> {}]

\* ----------------------------------------------------------------- validation
\* What a validator does with a text: returns true, false or a message, or throws.
Outcomes == {"true", "false", "message", "throws"}

\* defaultFSMOptions.validate = false
NoValidation == [enabled |-> FALSE, pattern |-> {}, validator |-> {}]

\* The validate options: false, or an object whose edge / innerNode / outerNode entries
\* (the same for the three kinds here) carry inputAttributes with or without a pattern,
\* and no validator or one whose outcome depends on the text being empty.  A pattern
\* is given by the texts it has to do with: found, those in which new RegExp(pattern)
\* finds a match (RegExp.prototype.test searches the text for one), and full, those it
\* matches as a whole (what the pattern attribute of an input means).  Here the
\* pattern, where there is one, is a regular expression every text but the last
\* matches, anchored or with nothing to find in the last text.
ValidateConfigs ==
  {NoValidation} \cup
  [enabled : {TRUE},
   pattern : {{}, {[found |-> Labels \ {MaxLabel}, full |-> Labels \ {MaxLabel}]}},
   validator : {{}} \cup {{w} : w \in [empty : Outcomes, other : Outcomes]}]

\* The validate options with every kind of pattern: a whole match is a match that is
\* found; in the empty text (text 0) a match is found only if it is the whole text;
\* and a pattern that matches the empty text finds that match in every text.
PatternConfigs ==
  [enabled : {TRUE},
   pattern : {{p} : p \in {q \in [found : SUBSET Labels, full : SUBSET Labels] :
                              /\ q.full \subseteq q.found
                              /\ 0 \in q.found <=> 0 \in q.full
                              /\ 0 \in q.found => q.found = Labels}},
   validator : {{}, {[empty |-> "false", other |-> "message"]}}]

\* A faulty try/catch: a validator that throws counts as one that accepted the text.
ValidatorResult_throwIsValid(cfg, v) ==
  LET w == CHOOSE u \in cfg.validator : TRUE
      res == IF v = 0 THEN w.empty ELSE w.other
  IN IF res = "throws" THEN "true" ELSE res

\* try { res = validator(input.value) } catch { res = false }
ValidatorResult(cfg, v) ==
  LET w == CHOOSE u \in cfg.validator : TRUE
      res == IF v = 0 THEN w.empty ELSE w.other
  IN IF res = "throws" THEN "false" ELSE res

\* A faulty runValidation: a field once marked stays marked with the message it had.
runValidation_keepsMarks(S) ==
  IF ~S.cfg.enabled \/ S.ro THEN S
  ELSE
    LET bad == {f \in DOMAIN S.inputs :
                  S.cfg.validator # {} /\ ValidatorResult(S.cfg, S.inputs[f]) # "true"}
    IN [S EXCEPT !.invalid =
          [f \in bad \cup DOMAIN S.invalid |->
             IF f \in DOMAIN S.invalid THEN S.invalid[f]
             ELSE [default |-> ValidatorResult(S.cfg, S.inputs[f]) = "false",
                   value |-> S.inputs[f]]]]

\* runValidation: every input of the overlay with a validator is marked invalid when the
\* result is a string (the message listed) or false (`${input.value} is invalid` listed),
\* and unmarked otherwise; nothing happens without validationEl.
runValidation(S) ==
  IF ~S.cfg.enabled \/ S.ro THEN S
  ELSE
    LET bad == {f \in DOMAIN S.inputs :
                  S.cfg.validator # {} /\ ValidatorResult(S.cfg, S.inputs[f]) # "true"}
    IN [S EXCEPT !.invalid =
          [f \in bad |-> [default |-> ValidatorResult(S.cfg, S.inputs[f]) = "false",
                          value |-> S.inputs[f]]]]

\* A faulty editIsInvalid: no text is rejected.
editIsInvalid_never(cfg, v) == FALSE

\* editIsInvalid: the input has a pattern and new RegExp(pattern).test(input.value) is
\* false, i.e. no match is found in the value.
editIsInvalid(cfg, v) == cfg.enabled /\ \E p \in cfg.pattern : v \notin p.found

\* An <input> is put in a label's foreignObject unless the editor is readonly.
AddInput(S, f, v) == IF S.ro THEN S ELSE [S EXCEPT !.inputs = Put(S.inputs, f, v)]

\* foreignObject.remove() for the editors F
RemoveInputs(S, F) == [S EXCEPT !.inputs = Drop(S.inputs, F), !.invalid = Drop(S.invalid, F)]

\* ---------------------------------------------------------------------- edges
\* createNewEdge(source, transition) with createEdgeElement's subscriptions.
createNewEdge(S, source, obj) ==
  LET id == S.edgeId
      S1 == [S EXCEPT !.edgeId = id + 1,
                      !.reg = Put(S.reg, id, [from |-> source, obj |-> obj])]
      S2 == [S1 EXCEPT !.geom = Put(S.geom, id, computeEdgeGeom(S1, id)),
                       !.anchor = Put(S.anchor, id, getAutoAnchor(S1, id)),
                       !.lst = S.lst \cup EdgeListeners(id, source, S.heap[obj].to)]
  IN AddInput(S2, EdgeField(id), S.heap[obj].label)

\* fromNode.transitions.indexOf(transition); splice(idx, 1)
SpliceObj(ts, obj) ==
  LET idx == CHOOSE i \in DOMAIN ts : ts[i] = obj /\ \A j \in 1..(i - 1) : ts[j] # obj
  IN SubSeq(ts, 1, idx - 1) \o SubSeq(ts, idx + 1, Len(ts))

\* A faulty removeEdge: the transition is looked up by its content (findIndex on to,
\* label, offset, rotation), not by identity.
removeEdge_byValue(S, id) ==
  IF id \notin DOMAIN S.reg THEN S
  ELSE
    LET from == S.reg[id].from
        obj == S.reg[id].obj
        S1 == [S EXCEPT !.reg = Drop(S.reg, {id}),
                        !.lst = {l \in S.lst : id \notin l.edgeSig},
                        !.geom = Drop(S.geom, {id}),
                        !.anchor = Drop(S.anchor, {id})]
        like == IF from \in DOMAIN S1.nodes
                  THEN SelectSeq(S1.nodes[from].transitions,
                                 LAMBDA o : S.heap[o] = S.heap[obj])
                  ELSE <<>>
        S2 == IF like # <<>>
                THEN tryOnChange([S1 EXCEPT !.nodes[from].transitions =
                                              SpliceObj(@, Head(like))])
                ELSE S1
    IN runValidation(RemoveInputs(S2, {EdgeField(id)}))

\* A faulty removeEdge: the registry entry stays.
removeEdge_keepsRegistry(S, id) ==
  IF id \notin DOMAIN S.reg THEN S
  ELSE
    LET from == S.reg[id].from
        obj == S.reg[id].obj
        S1 == [S EXCEPT !.lst = {l \in S.lst : id \notin l.edgeSig},
                        !.geom = Drop(S.geom, {id}),
                        !.anchor = Drop(S.anchor, {id})]
        S2 == IF from \in DOMAIN S1.nodes /\ obj \in Range(S1.nodes[from].transitions)
                THEN tryOnChange([S1 EXCEPT !.nodes[from].transitions = SpliceObj(@, obj)])
                ELSE S1
    IN runValidation(RemoveInputs(S2, {EdgeField(id)}))

\* A faulty removeEdge: controller.abort() is missing, the edge's listeners stay.
removeEdge_keepsListeners(S, id) ==
  IF id \notin DOMAIN S.reg THEN S
  ELSE
    LET from == S.reg[id].from
        obj == S.reg[id].obj
        S1 == [S EXCEPT !.reg = Drop(S.reg, {id}),
                        !.geom = Drop(S.geom, {id}),
                        !.anchor = Drop(S.anchor, {id})]
        S2 == IF from \in DOMAIN S1.nodes /\ obj \in Range(S1.nodes[from].transitions)
                THEN tryOnChange([S1 EXCEPT !.nodes[from].transitions = SpliceObj(@, obj)])
                ELSE S1
    IN runValidation(RemoveInputs(S2, {EdgeField(id)}))

\* A faulty removeEdge: no tryOnChange after the splice.
removeEdge_silent(S, id) ==
  IF id \in DOMAIN S.reg
    THEN LET from == S.reg[id].from
             obj == S.reg[id].obj
             S1 == [S EXCEPT !.reg = Drop(S.reg, {id}),
                             !.lst = {l \in S.lst : id \notin l.edgeSig},
                             !.geom = Drop(S.geom, {id}),
                             !.anchor = Drop(S.anchor, {id})]
             S2 == IF from \in DOMAIN S1.nodes /\ obj \in Range(S1.nodes[from].transitions)
                     THEN [S1 EXCEPT !.nodes[from].transitions = SpliceObj(@, obj)]
                     ELSE S1
         IN runValidation(RemoveInputs(S2, {EdgeField(id)}))
    ELSE S

removeEdge(S, id) ==
  IF id \notin DOMAIN S.reg THEN S
  ELSE
    LET from == S.reg[id].from
        obj == S.reg[id].obj
        \* delete edgeIdToTransition[id]; controller.abort(); the edge group and (at the
        \* end) its label editor are removed; runValidation()
        S1 == [S EXCEPT !.reg = Drop(S.reg, {id}),
                        !.lst = {l \in S.lst : id \notin l.edgeSig},
                        !.geom = Drop(S.geom, {id}),
                        !.anchor = Drop(S.anchor, {id})]
        S2 == IF from \in DOMAIN S1.nodes /\ obj \in Range(S1.nodes[from].transitions)
                THEN tryOnChange([S1 EXCEPT !.nodes[from].transitions = SpliceObj(@, obj)])
                ELSE S1
    IN runValidation(RemoveInputs(S2, {EdgeField(id)}))

\* ---------------------------------------------------------------------- nodes
\* svg.dispatchEvent(`fsm:${id}-remove`): the remove callbacks attached when the
\* dispatch starts, in the order they were added (edges are created in id order).
RECURSIVE RemoveEdges(_, _)
RemoveEdges(S, E) ==
  IF E = {} THEN S
  ELSE LET e == CHOOSE m \in E : \A k \in E : m <= k
       IN RemoveEdges(removeEdge(S, e), E \ {e})

\* A faulty cascade: only the edges leaving the node are removed.
DispatchRemove_sourceOnly(S, id) ==
  RemoveEdges(S, {e \in DOMAIN S.reg : S.reg[e].from = id})

DispatchRemove(S, id) ==
  RemoveEdges(S, {l.id : l \in {k \in S.lst : k.type = "remove" /\ k.on = id}})

\* A faulty remove-node listener: fsmState.start is not cleared.
DispatchRemoveNode_keepsStart(S, id) ==
  [S EXCEPT !.mask = RemoveCircle(S.mask, id)]

\* A faulty remove-node listener: the marker is not hidden.
DispatchRemoveNode_keepsMarker(S, id) ==
  LET S1 == [S EXCEPT !.mask = RemoveCircle(S.mask, id)]
  IN IF id \in S1.start THEN [S1 EXCEPT !.start = {}] ELSE S1

\* A faulty remove-node listener: start is cleared without comparing it with id.
DispatchRemoveNode_anyStart(S, id) ==
  LET S1 == [S EXCEPT !.mask = RemoveCircle(S.mask, id)]
  IN [S1 EXCEPT !.start = {}, !.marker.visible = FALSE]

\* svg.dispatchEvent('fsm:update', {type: 'remove-node', id}): the mask drops the
\* circle; the start marker clears fsmState.start and hides when id is the start.
DispatchRemoveNode(S, id) ==
  LET S1 == [S EXCEPT !.mask = RemoveCircle(S.mask, id)]
  IN IF id \in S1.start
       THEN [S1 EXCEPT !.start = {}, !.marker.visible = FALSE]
       ELSE S1

\* A faulty abort: the controller goes, the listeners it scoped stay attached.
AbortNode_keepsListeners(S, id) ==
  IF id \in S.ctrl THEN [S EXCEPT !.ctrl = S.ctrl \ {id}] ELSE S

\* abortController.abort(); delete nodeAbortControllers[id]
AbortNode(S, id) ==
  IF id \in S.ctrl
    THEN [S EXCEPT !.lst = {l \in S.lst : id \notin l.nodeSig}, !.ctrl = S.ctrl \ {id}]
    ELSE S

removeNode(S, id) ==
  LET S1 == DispatchRemove(S, id)
      S2 == DispatchRemoveNode(S1, id)
      S3 == AbortNode(S2, id)
      S4 == [S3 EXCEPT !.nodes = Drop(S3.nodes, {id}), !.keys = Without(S3.keys, id)]
      S5 == runValidation(RemoveInputs(S4, {InnerField(id), OuterField(id)}))
  IN tryOnChange(S5)

\* createNewNode(id, node): the node's label editors; runValidation()
createNewNode(S, id) ==
  runValidation(AddInput(AddInput(S, InnerField(id), S.nodes[id].innerLabel),
                         OuterField(id), S.nodes[id].label))

\* A faulty mask: every circle is replaced by a new one when a node is added.
createNodeMaskShape_rebuild(S, id) ==
  [S EXCEPT !.mask = [i \in 1..Len(S.keys) |->
                        [id |-> S.keys[i], made |-> S.now,
                         shape |-> MaskShapeOf(S.nodes[S.keys[i]])]],
            !.lst = IF id \in S.ctrl THEN S.lst \cup {MaskListener(id)} ELSE S.lst]

\* createNodeMaskShape(id, node): a new circle is appended to the mask
createNodeMaskShape(S, id) ==
  [S EXCEPT !.mask = Append(S.mask, [id |-> id, made |-> S.now,
                                     shape |-> MaskShapeOf(S.nodes[id])]),
            !.lst = IF id \in S.ctrl THEN S.lst \cup {MaskListener(id)} ELSE S.lst]

\* A faulty node literal: the node is not put at the pointer position.
NewNodeAt_origin(pt) ==
  [label |-> 0, innerLabel |-> 0, x |-> 0, y |-> 0, radius |-> defaultRadius,
   transitions |-> <<>>]

\* The node literal of the dblclick and add-mode handlers.
NewNodeAt(pt) ==
  [label |-> 0, innerLabel |-> 0, x |-> pt.x, y |-> pt.y, radius |-> defaultRadius,
   transitions |-> <<>>]

\* fsmState.nodes[id] = node; createNewNode(id, node);
\* dispatch 'fsm:update' {type: 'new-node', id}: registerGlobalEvents' listener makes the
\* abort controller, then the mask's listener adds the shape; tryOnChange(fsmState)
AddNode(S, id, pt) ==
  LET S1 == [S EXCEPT !.nodes = Put(S.nodes, id, NewNodeAt(pt)),
                      !.keys = IF id \in Range(S.keys) THEN S.keys ELSE Append(S.keys, id)]
      S2 == [createNewNode(S1, id) EXCEPT !.ctrl = S1.ctrl \cup {id}]
      S3 == createNodeMaskShape(S2, id)
  IN tryOnChange(S3)

\* A faulty update-pos dispatch: the mask's listener is not called.
DispatchUpdatePos_edgesOnly(S, id) ==
  LET on == {l \in S.lst : l.type = "update-pos" /\ l.on = id}
  IN [S EXCEPT
        !.geom = [e \in DOMAIN S.geom |->
                    IF \E l \in on : l.owner = "edge" /\ l.id = e
                      THEN computeEdgeGeom(S, e) ELSE S.geom[e]],
        !.anchor = [e \in DOMAIN S.anchor |->
                      IF \E l \in on : l.owner = "edge" /\ l.id = e
                        THEN getAutoAnchor(S, e) ELSE S.anchor[e]]]

\* svg.dispatchEvent(`fsm:${id}-update-pos`): the attached callbacks of edges
\* (updateEdgeElement) and of the mask (updateNodeMaskShape, on the node it closed over).
DispatchUpdatePos(S, id) ==
  LET on == {l \in S.lst : l.type = "update-pos" /\ l.on = id}
  IN [S EXCEPT
        !.geom = [e \in DOMAIN S.geom |->
                    IF \E l \in on : l.owner = "edge" /\ l.id = e
                      THEN computeEdgeGeom(S, e) ELSE S.geom[e]],
        !.anchor = [e \in DOMAIN S.anchor |->
                      IF \E l \in on : l.owner = "edge" /\ l.id = e
                        THEN getAutoAnchor(S, e) ELSE S.anchor[e]],
        !.mask = [i \in DOMAIN S.mask |->
                    IF /\ \E l \in on : l.owner = "mask" /\ l.id = S.mask[i].id
                       /\ S.mask[i].id \in DOMAIN S.nodes
                      THEN [S.mask[i] EXCEPT !.shape = MaskShapeOf(S.nodes[S.mask[i].id])]
                      ELSE S.mask[i]]]

\* svg.dispatchEvent('fsm:node-move', {id, node}): the start marker follows its node.
DispatchNodeMove(S, id, node) ==
  IF id \in S.start THEN [S EXCEPT !.marker.tip = {StartTipOf(node)}] ELSE S

\* The 'fsm:set-start' listener of createStartMarker.
DispatchSetStart(S, id) ==
  IF id \in DOMAIN S.nodes
    THEN [S EXCEPT !.marker = [visible |-> TRUE, tip |-> {StartTipOf(S.nodes[id])}]]
    ELSE S

\* -------------------------------------------------------------- vector helpers
\* unitVec(vx, vy) = (vx, vy) / (hypot(vx, vy) || 1), for a vector along an axis.
unitVec(vx, vy) == [x |-> Sign(vx), y |-> Sign(vy)]

perpLeft(v) == [x |-> 0 - v.y, y |-> v.x]

\* (Math.atan2(dy, dx) * 180) / Math.PI, for a vector along an axis.
Atan2Deg(dy, dx) ==
  IF dy = 0 THEN (IF dx < 0 THEN 180 ELSE 0) ELSE (IF dy > 0 THEN 90 ELSE 0 - 90)

AxisAligned(dy, dx) == dy = 0 \/ dx = 0

\* The signed distance of pt from the chord midpoint along the chord's left normal:
\* n = perpLeft(unitVec(p3 - p0)); m = (p0 + p3) / 2; (pt - m) . n
SignedDistance(p0, p3, pt) ==
  LET n == perpLeft(unitVec(p3.x - p0.x, p3.y - p0.y))
  IN ((2 * pt.x - (p0.x + p3.x)) * n.x + (2 * pt.y - (p0.y + p3.y)) * n.y) \div 2

Center(node) == [x |-> node.x, y |-> node.y]

\* findNodeAtPt: the nearest node within radius + defaultRadius of pt, the first
\* in Object.entries order among equally near ones.
InHitRange(node, pt) ==
  (pt.x - node.x) * (pt.x - node.x) + (pt.y - node.y) * (pt.y - node.y)
    <= (node.radius + defaultRadius) * (node.radius + defaultRadius)

Dist2(node, pt) ==
  (pt.x - node.x) * (pt.x - node.x) + (pt.y - node.y) * (pt.y - node.y)

findNodeAtPt(S, pt) ==
  LET near == SelectSeq(S.keys, LAMBDA k : InHitRange(S.nodes[k], pt))
      best == SelectSeq(near, LAMBDA k :
                \A j \in Range(near) : Dist2(S.nodes[k], pt) <= Dist2(S.nodes[j], pt))
  IN IF best = <<>> THEN {} ELSE {Head(best)}

\* e.target of a pointer event at pt is a node's circle (and not the svg background).
OnNodeElement(S, pt) ==
  \E k \in DOMAIN S.nodes :
    Dist2(S.nodes[k], pt) <= S.nodes[k].radius * S.nodes[k].radius

\* ------------------------------------------------------------- curve engine
\* The curve engine works on real numbers.  Here a length is a whole number of
\* 1/PerPx px (the engine's smallest length, the 0.06 px added to the end radius, is
\* 3 of them), and a curve parameter, a cosine or a sine is a whole number of
\* 1/PerOne; a quotient or product is rounded down to that resolution, so a result is
\* the engine's up to a few hundredths of a px (where the Newton iteration does not
\* settle, between overlapping nodes, the last digits can decide which value it ends
\* on).  NaN is the empty set where a value is optional.
PerPx == 5 * 10
PerOne == 10 ^ 4

ToUnits(p) == [x |-> PerPx * p.x, y |-> PerPx * p.y]

\* a / b in units of 1/PerOne for |a| < |b|, both scaled down first where a * PerOne
\* would not fit a machine integer
Ratio(a, b) ==
  LET k == 1 + Abs(b) \div (20 * PerOne)
  IN Sign(a) * Sign(b) * (((Abs(a) \div k) * PerOne) \div (Abs(b) \div k))

\* Math.sqrt of a value in [0, 1] given in units of 1/PerOne^2: the q in lo..(hi - 1)
\* with q * q <= v < (q + 1) * (q + 1)
RECURSIVE SqrtFrom(_, _, _)
SqrtFrom(v, lo, hi) ==
  IF hi - lo <= 1 THEN lo
  ELSE LET mid == (lo + hi) \div 2
       IN IF mid * mid <= v THEN SqrtFrom(v, mid, hi) ELSE SqrtFrom(v, lo, mid)

\* cubicPoint: the Bernstein form
cubicPoint(p0, p1, p2, p3, t) ==
  LET u == PerOne - t
      uu == (u * u) \div PerOne
      tt == (t * t) \div PerOne
      b0 == (uu * u) \div PerOne
      b1 == (3 * uu * t) \div PerOne
      b2 == (3 * u * tt) \div PerOne
      b3 == (tt * t) \div PerOne
  IN [x |-> (b0 * p0.x + b1 * p1.x + b2 * p2.x + b3 * p3.x) \div PerOne,
      y |-> (b0 * p0.y + b1 * p1.y + b2 * p2.y + b3 * p3.y) \div PerOne]

\* cubicTangent
cubicTangent(p0, p1, p2, p3, t) ==
  LET u == PerOne - t
      c0 == (3 * u * u) \div PerOne
      c1 == (6 * u * t) \div PerOne
      c2 == (3 * t * t) \div PerOne
  IN [x |-> (c0 * (p1.x - p0.x) + c1 * (p2.x - p1.x) + c2 * (p3.x - p2.x)) \div PerOne,
      y |-> (c0 * (p1.y - p0.y) + c1 * (p2.y - p1.y) + c2 * (p3.y - p2.y)) \div PerOne]

\* A faulty controlFromOffsetCubic: the control points are displaced along the chord's
\* right normal.
controlFromOffsetCubic_rightNormal(p0, p3, offset) ==
  LET dir == unitVec(p3.x - p0.x, p3.y - p0.y)
      n == perpLeft(dir)
      m == [x |-> (p0.x + p3.x) \div 2, y |-> (p0.y + p3.y) \div 2]
      sep == (4 * Abs(offset)) \div 10
      disp == (8 * offset) \div 10
  IN <<[x |-> m.x - dir.x * sep - n.x * disp, y |-> m.y - dir.y * sep - n.y * disp],
       [x |-> m.x + dir.x * sep - n.x * disp, y |-> m.y + dir.y * sep - n.y * disp]>>

\* controlFromOffsetCubic: sepScale 0.4, dispScale 0.8
controlFromOffsetCubic(p0, p3, offset) ==
  LET dir == unitVec(p3.x - p0.x, p3.y - p0.y)
      n == perpLeft(dir)
      m == [x |-> (p0.x + p3.x) \div 2, y |-> (p0.y + p3.y) \div 2]
      sep == (4 * Abs(offset)) \div 10
      disp == (8 * offset) \div 10
  IN <<[x |-> m.x - dir.x * sep + n.x * disp, y |-> m.y - dir.y * sep + n.y * disp],
       [x |-> m.x + dir.x * sep + n.x * disp, y |-> m.y + dir.y * sep + n.y * disp]>>

\* f of findCubicCircleIntersectionT: |B(t) - center|^2 - radius^2, in (1/PerPx px)^2
CircleF(c, t) ==
  LET q == cubicPoint(c.p0, c.p1, c.p2, c.p3, t)
  IN (q.x - c.center.x) * (q.x - c.center.x) + (q.y - c.center.y) * (q.y - c.center.y)
       - c.radius * c.radius

\* df of findCubicCircleIntersectionT
CircleDf(c, t) ==
  LET q == cubicPoint(c.p0, c.p1, c.p2, c.p3, t)
      dq == cubicTangent(c.p0, c.p1, c.p2, c.p3, t)
  IN 2 * ((q.x - c.center.x) * dq.x + (q.y - c.center.y) * dq.y)

\* The Newton loop from its i-th pass on: break on a derivative below 1e-6 (here 0);
\* t = max(0, min(1, t - ft / dft)); break when |ft| < 1e-4 (here 0).  Every value is
\* finite.  A step of one or more leaves [0, 1] and is clamped.
RECURSIVE NewtonFrom(_, _, _)
NewtonFrom(c, t, i) ==
  IF i = 10 THEN t
  ELSE
    LET ft == CircleF(c, t)
        dft == CircleDf(c, t)
    IN IF dft = 0 THEN t
       ELSE
         LET tNext == IF Abs(ft) >= Abs(dft)
                        THEN (IF Sign(ft) = Sign(dft) THEN 0 ELSE PerOne)
                        ELSE t - Ratio(ft, dft)
             clamped == IF tNext < 0 THEN 0 ELSE IF tNext > PerOne THEN PerOne ELSE tNext
         IN IF ft = 0 THEN clamped ELSE NewtonFrom(c, clamped, i + 1)

\* The bisection loop from its i-th pass on.
RECURSIVE BisectFrom(_, _, _, _)
BisectFrom(c, lo, hi, i) ==
  IF i = 24 THEN hi
  ELSE LET mid == (lo + hi) \div 2
       IN IF CircleF(c, mid) > 0 THEN BisectFrom(c, mid, hi, i + 1)
          ELSE BisectFrom(c, lo, mid, i + 1)

\* findCubicCircleIntersectionT: Newton from t = 0.95; bisection over [0, 1] only if
\* f(t) > 1e-3 px^2 (t is in [0, 1] after the clamp)
findCubicCircleIntersectionT(p0, p1, p2, p3, center, radius) ==
  LET c == [p0 |-> p0, p1 |-> p1, p2 |-> p2, p3 |-> p3, center |-> center,
            radius |-> radius]
      t == NewtonFrom(c, (95 * PerOne) \div 100, 0)
  IN IF CircleF(c, t) > (PerPx * PerPx) \div 1000 THEN BisectFrom(c, 0, PerOne, 0) ELSE t

\* computeNonSelfEdgeGeom, its arguments in px: the path's points, the arrow tip, the
\* label's curve point (the tangents are left out)
computeNonSelfEdgeGeom(startCenter, endCenter, endRadius, offset) ==
  LET p0 == ToUnits(startCenter)
      p3 == ToUnits(endCenter)
      cp == controlFromOffsetCubic(p0, p3, PerPx * offset)
      tInt == findCubicCircleIntersectionT(p0, cp[1], cp[2], p3, p3,
                                           PerPx * endRadius + (6 * PerPx) \div 100)
  IN [d |-> <<p0, cp[1], cp[2], p3>>,
      tInt |-> tInt,
      tipPt |-> cubicPoint(p0, cp[1], cp[2], p3, tInt),
      mid |-> cubicPoint(p0, cp[1], cp[2], p3, PerOne \div 2)]

\* (Math.cos, Math.sin) of rotationDeg * Math.PI / 180, for a rotation along an axis
CosSin(deg) ==
  IF deg = 0 THEN [cos |-> 1, sin |-> 0]
  ELSE IF deg = 90 THEN [cos |-> 0, sin |-> 1]
  ELSE IF deg = 180 THEN [cos |-> 0 - 1, sin |-> 0]
  ELSE [cos |-> 0, sin |-> 0 - 1]

\* A faulty selfLoopArcParams: the law of cosines with r * r added.
selfLoopArcParams_wrongSign(center, r, deg) ==
  LET Rs == (8 * r) \div 10
      e == CosSin(deg)
      Cs == [x |-> center.x + r * e.cos, y |-> center.y + r * e.sin]
      pt == [x |-> Cs.x - Rs * e.cos, y |-> Cs.y - Rs * e.sin]
  IN [center |-> Cs, radius |-> Rs, startPt |-> IF r = 0 THEN {} ELSE {pt},
      endPt |-> IF r = 0 THEN {} ELSE {pt}, largeArcFlag |-> 1, sweepFlag |-> 1]

\* selfLoopArcParams: the loop's circle of radius 0.8 r centred r from the node centre
\* towards theta, cut by the node's circle at the angles baseSmall +- beta; cosBeta is
\* 0 / 0 = NaN for r = 0, which Math.max and Math.min hand on.  cos and sin of
\* baseSmall +- beta by the addition theorems, baseSmall being theta + pi.
selfLoopArcParams(center, r, deg) ==
  LET Rs == (8 * r) \div 10
      d == r
      e == CosSin(deg)
      Cs == [x |-> center.x + d * e.cos, y |-> center.y + d * e.sin]
      num == d * d + Rs * Rs - r * r
      den == 2 * d * Rs
      cosBeta == IF den = 0 THEN {}
                 ELSE {IF Abs(num) >= Abs(den) THEN Sign(num) * Sign(den) * PerOne
                       ELSE Ratio(num, den)}
      \* <<cos, sin>> of beta = Math.acos(cosBeta)
      beta == {<<cb, SqrtFrom(PerOne * PerOne - cb * cb, 0, PerOne + 1)>> : cb \in cosBeta}
      Arc(sgn) ==
        {[x |-> Cs.x + (Rs * ((0 - e.cos) * b[1] + sgn * e.sin * b[2])) \div PerOne,
          y |-> Cs.y + (Rs * ((0 - e.sin) * b[1] - sgn * e.cos * b[2])) \div PerOne] :
           b \in beta}
  IN [center |-> Cs, radius |-> Rs, startPt |-> Arc(1), endPt |-> Arc(0 - 1),
      largeArcFlag |-> 1, sweepFlag |-> 1]

\* computeSelfEdgeGeom, its arguments in px and degrees: the path
\* `M startPt A radius radius 0 largeArcFlag 1 endPt` (arrow and label are left out)
computeSelfEdgeGeom(startCenter, endRadius, rotationDeg) ==
  LET arc == selfLoopArcParams(ToUnits(startCenter), PerPx * endRadius, rotationDeg)
  IN [startPt |-> arc.startPt, endPt |-> arc.endPt, radius |-> arc.radius,
      largeArcFlag |-> arc.largeArcFlag, sweepFlag |-> 1]

\* ------------------------------------------------------------------ transitions
\* addTransitionInternal({from, to, label, offset = 0, rotation})
addTransitionInternal(S, from, to, label, offset, rotation) ==
  IF from \notin DOMAIN S.nodes \/ to \notin DOMAIN S.nodes THEN S
  ELSE
    LET obj == S.nextObj
        S1 == [S EXCEPT !.nextObj = obj + 1,
                        !.heap = Put(S.heap, obj, [to |-> to, label |-> label,
                                                   offset |-> offset, rotation |-> rotation]),
                        !.nodes[from].transitions = Append(@, obj)]
    IN tryOnChange(createNewEdge(S1, from, obj))

\* ---------------------------------------------------------------- construction
EmptyFn == [k \in {} |-> 0]

InitialNode(x, ts) ==
  [label |-> 0, innerLabel |-> 0, x |-> x, y |-> 0, radius |-> defaultRadius,
   transitions |-> ts]

\* The initialState values the editor is constructed with: the empty graph; one
\* start node with a supplied id node-k and a self-loop; or two nodes, the start
\* node with a self-loop and the other with a transition to the start node.
InitialStates ==
  {[nodes |-> EmptyFn, keys |-> <<>>, start |-> {}, heap |-> EmptyFn]}
  \cup
  {[nodes |-> [n \in {k} |-> InitialNode(0, <<0>>)],
    keys |-> <<k>>,
    start |-> {k},
    heap |-> [o \in {0} |-> [to |-> k, label |-> 0, offset |-> 0, rotation |-> {}]]] :
     k \in NodeIds}
  \cup
  {[nodes |-> [n \in {0, 1} |-> InitialNode(200 * n, <<n>>)],
    keys |-> <<0, 1>>,
    start |-> {0},
    heap |-> [o \in {0, 1} |-> [to |-> 0, label |-> 0, offset |-> 0, rotation |-> {}]]]}

RECURSIVE MaskAll(_, _)
MaskAll(S, ks) ==
  IF ks = <<>> THEN S ELSE MaskAll(createNodeMaskShape(S, Head(ks)), Tail(ks))

RECURSIVE TransitionPairs(_, _)
TransitionPairs(ns, ks) ==
  IF ks = <<>> THEN <<>>
  ELSE [i \in 1..Len(ns[Head(ks)].transitions) |-> <<Head(ks), ns[Head(ks)].transitions[i]>>]
         \o TransitionPairs(ns, Tail(ks))

RECURSIVE EdgesAll(_, _)
EdgesAll(S, ps) ==
  IF ps = <<>> THEN S
  ELSE EdgesAll(createNewEdge(S, Head(ps)[1], Head(ps)[2]), Tail(ps))

\* createStartMarker: visibility from startId, then 'fsm:set-start' for a live start.
createStartMarker(S) ==
  LET S1 == [S EXCEPT !.marker = [visible |-> S.start # {}, tip |-> {}]]
  IN IF S.start # {} /\ S.start \subseteq DOMAIN S.nodes
       THEN DispatchSetStart(S1, CHOOSE n \in S.start : TRUE)
       ELSE S1

\* createFSMBuilder: controllers for the initial nodes, the mask, the edges, the nodes
\* with their label editors, the start marker, the validation list; runValidation().
Construct(st, ro, cfg) ==
  LET S0 == [nodes |-> st.nodes, keys |-> st.keys, start |-> st.start, heap |-> st.heap,
             edgeId |-> 0, nextObj |-> Cardinality(DOMAIN st.heap), reg |-> EmptyFn,
             ctrl |-> DOMAIN st.nodes, lst |-> {},
             timers |-> {}, tid |-> 0, burst |-> 0,
             mask |-> <<>>, geom |-> EmptyFn,
             marker |-> [visible |-> FALSE, tip |-> {}], anchor |-> EmptyFn,
             inputs |-> EmptyFn, invalid |-> EmptyFn, ro |-> ro, cfg |-> cfg,
             now |-> 0, byDrag |-> FALSE]
      S1 == MaskAll(S0, st.keys)
      S2 == EdgesAll(S1, TransitionPairs(st.nodes, st.keys))
      editors == {InnerField(n) : n \in DOMAIN st.nodes} \cup
                 {OuterField(n) : n \in DOMAIN st.nodes}
      S3 == IF ro THEN S2
            ELSE [S2 EXCEPT !.inputs =
                    [f \in DOMAIN S2.inputs \cup editors |->
                       IF f.kind = "edge" THEN S2.inputs[f]
                       ELSE IF f.kind = "innerNode" THEN st.nodes[f.id].innerLabel
                       ELSE st.nodes[f.id].label]]
  IN runValidation(createStartMarker(S3))

\* No second editor was constructed.
NoPeer == [initialState |-> "none"]

\* The editor constructed from one of the initial states sts, readonly or not, with one
\* of the validate options cfgs.
InitEditor(sts, cfgs) ==
  \E st \in sts, ro \in BOOLEAN, cfg \in cfgs :
    LET S == Construct(st, ro, cfg)
    IN /\ nodes = S.nodes
       /\ keys = S.keys
       /\ start = S.start
       /\ heap = S.heap
       /\ nodeId = 0
       /\ edgeId = S.edgeId
       /\ nextObj = S.nextObj
       /\ edgeIdToTransition = S.reg
       /\ nodeAbortControllers = S.ctrl
       /\ listeners = S.lst
       /\ editMode = "default"
       /\ gesture = NoGesture
       /\ nodeMoved = [n \in DOMAIN S.nodes |-> FALSE]
       /\ edgeMoved = [e \in DOMAIN S.reg |-> FALSE]
       /\ changeScheduled = {}
       /\ timers = S.timers
       /\ onChangeTimeoutId = S.tid
       /\ maskShapes = S.mask
       /\ edgeGeom = S.geom
       /\ startMarker = S.marker
       /\ labelAnchor = S.anchor
       /\ unnotified = FALSE
       /\ burst = 0
       /\ frameCalls = 0
       /\ settle = NotSettling
       /\ events = 0
       /\ inputValue = S.inputs
       /\ invalid = S.invalid
       /\ readonly = ro
       /\ validate = cfg
       /\ focused = {}
       /\ notes = {}

\* The editor alone, constructed on an initialState object of the caller's: no second
\* editor, no stepper, nothing exported.
InitFrom(sts, cfgs) ==
  /\ InitEditor(sts, cfgs)
  /\ initialState = "own"
  /\ peer = NoPeer
  /\ currentNode = {}
  /\ inputs = EmptyFn
  /\ legacy = {}

\* The validate option keeps its default.
Init == InitFrom(InitialStates, {NoValidation})

\* ---------------------------------------------------------------- readonly gates
\* if (!readonly) registerGlobalEvents(): the svg 'dblclick' and 'click' handlers.
GlobalEvents == ~readonly

\* if (!readonly && (debug || sidebar)) createSidebar(fsmContainer), the sidebar asked for.
Sidebar == ~readonly

\* A faulty gate: initializeNodeInteraction also runs in a readonly editor.
NodeInteraction_always == TRUE

\* if (!readonly) initializeNodeInteraction(el, svg, id, node)
NodeInteraction == ~readonly

\* initializeNodeLabelEditors: text when readonly, else an input with its 'input' handler.
NodeEditors == ~readonly

\* initializeEdgeLabelEditor: text when readonly, else the input with its 'input' handler.
EdgeEditor == ~readonly

\* if (edgeInput) initializeEdgeInteraction(...): there is an input unless readonly.
EdgeInteraction == EdgeEditor

\* -------------------------------------------------------------------- closures
\* The `moved` flags of the node and edge closures whose elements exist.
NodeClosures(S, f) ==
  [n \in DOMAIN S.nodes |-> IF n \in DOMAIN f THEN f[n] ELSE FALSE]

EdgeClosures(S, f) ==
  [e \in DOMAIN S.reg |-> IF e \in DOMAIN f THEN f[e] ELSE FALSE]

\* A node drag whose node has been removed works on a node object no longer in fsmState.
Detach(g, id) ==
  IF g.kind = "node" /\ g.id = id THEN [g EXCEPT !.stale = TRUE] ELSE g

\* ------------------------------------------------------------- node creation
\* A faulty svg 'dblclick' handler: the edit mode is not checked.
SvgDblClick_anyMode(pt) ==
  /\ InputEvent
  /\ GlobalEvents
  /\ gesture.kind = "none"
  /\ ~OnNodeElement(Store, pt)
  /\ findNodeAtPt(Store, pt) = {}
  /\ LET r == createNodeId(DOMAIN nodes, nodeId)
     IN /\ r.id <= MaxNodeId
        /\ Commit(AddNode(Store, r.id, pt))
        /\ nodeId' = r.nodeId
        /\ nodeMoved' = Put(nodeMoved, r.id, FALSE)
  /\ settle' = NotSettling
  /\ UNCHANGED <<readonly, validate, pageVars, notes>>
  /\ focused' = {}
  /\ UNCHANGED <<editMode, gesture, edgeMoved, changeScheduled, frameCalls>>

\* svg 'dblclick' on the background, default mode.
SvgDblClick(pt) ==
  /\ InputEvent
  /\ GlobalEvents
  /\ gesture.kind = "none"
  /\ editMode = "default"
  /\ ~OnNodeElement(Store, pt)
  /\ findNodeAtPt(Store, pt) = {}
  /\ LET r == createNodeId(DOMAIN nodes, nodeId)
     IN /\ r.id <= MaxNodeId
        /\ Commit(AddNode(Store, r.id, pt))
        /\ nodeId' = r.nodeId
        /\ nodeMoved' = Put(nodeMoved, r.id, FALSE)
  /\ settle' = NotSettling
  /\ UNCHANGED <<readonly, validate, pageVars, notes>>
  /\ focused' = {}
  /\ UNCHANGED <<editMode, gesture, edgeMoved, changeScheduled, frameCalls>>

\* svg 'dblclick' on the background that creates nothing: the handler returns at
\* `editMode !== 'default'` or at `if (findNodeAtPt(pt)) return`.
SvgDblClickIgnored(pt) ==
  /\ InputEvent
  /\ GlobalEvents
  /\ gesture.kind = "none"
  /\ ~OnNodeElement(Store, pt)
  /\ editMode # "default" \/ findNodeAtPt(Store, pt) # {}
  /\ settle' = NotSettling
  /\ UNCHANGED <<readonly, validate, pageVars, notes>>
  /\ focused' = {}
  /\ UNCHANGED <<graphVars, idVars, edgeIdToTransition, nodeAbortControllers, listeners,
                 editMode, gesture, nodeMoved, edgeMoved, changeScheduled, timers,
                 onChangeTimeoutId, viewVars, unnotified, burst, frameCalls>>

\* svg 'click' on the background, add mode.
SvgClickAdd(pt) ==
  /\ InputEvent
  /\ GlobalEvents
  /\ gesture.kind = "none"
  /\ editMode = "add"
  /\ ~OnNodeElement(Store, pt)
  /\ LET r == createNodeId(DOMAIN nodes, nodeId)
     IN /\ r.id <= MaxNodeId
        /\ Commit(AddNode(Store, r.id, pt))
        /\ nodeId' = r.nodeId
        /\ nodeMoved' = Put(nodeMoved, r.id, FALSE)
  /\ editMode' = "default"
  /\ settle' = NotSettling
  /\ UNCHANGED <<readonly, validate, pageVars, notes>>
  /\ focused' = {}
  /\ UNCHANGED <<gesture, edgeMoved, changeScheduled, frameCalls>>

\* A sidebar tool button: container.dataset.editMode = mode.
SetMode(m) ==
  /\ InputEvent
  /\ Sidebar
  /\ gesture.kind = "none"
  /\ m # editMode
  /\ editMode' = m
  /\ settle' = NotSettling
  /\ UNCHANGED <<readonly, validate, pageVars, notes>>
  /\ focused' = {}
  /\ UNCHANGED <<graphVars, idVars, edgeIdToTransition, nodeAbortControllers, listeners,
                 gesture, nodeMoved, edgeMoved, changeScheduled, timers,
                 onChangeTimeoutId, viewVars, unnotified, burst, frameCalls>>

\* ------------------------------------------------------------------ node drag
\* g 'pointerdown' in add or remove mode without Shift: startLink returns false and
\* the handler returns at `mode !== 'default'`.
NodePointerDownIgnored(n) ==
  /\ InputEvent
  /\ NodeInteraction
  /\ gesture.kind = "none"
  /\ editMode \in {"add", "remove"}
  /\ n \in DOMAIN nodes
  /\ settle' = NotSettling
  /\ UNCHANGED <<readonly, validate, pageVars, notes>>
  /\ focused' = {}
  /\ UNCHANGED <<graphVars, idVars, edgeIdToTransition, nodeAbortControllers, listeners,
                 editMode, gesture, nodeMoved, edgeMoved, changeScheduled, timers,
                 onChangeTimeoutId, viewVars, unnotified, burst, frameCalls>>

\* A faulty g 'pointerdown' handler: the drag starts in any mode.
NodePointerDown_anyMode(n, pt) ==
  /\ InputEvent
  /\ NodeInteraction
  /\ gesture.kind = "none"
  /\ n \in DOMAIN nodes
  /\ Dist2(nodes[n], pt) <= nodes[n].radius * nodes[n].radius
  /\ gesture' = [kind |-> "node", id |-> n,
                 offX |-> pt.x - nodes[n].x, offY |-> pt.y - nodes[n].y,
                 dragStartX |-> nodes[n].x, dragStartY |-> nodes[n].y,
                 radius |-> nodes[n].radius, stale |-> FALSE, last |-> {}]
  /\ nodeMoved' = [nodeMoved EXCEPT ![n] = FALSE]
  /\ frameCalls' = 0
  /\ settle' = NotSettling
  /\ UNCHANGED <<readonly, validate, pageVars, notes>>
  /\ focused' = {}
  /\ UNCHANGED <<graphVars, idVars, edgeIdToTransition, nodeAbortControllers, listeners,
                 editMode, edgeMoved, changeScheduled, timers, onChangeTimeoutId,
                 viewVars, unnotified, burst>>

\* g 'pointerdown' in default mode without Shift: the drag starts.
NodePointerDown(n, pt) ==
  /\ InputEvent
  /\ NodeInteraction
  /\ gesture.kind = "none"
  /\ editMode = "default"
  /\ n \in DOMAIN nodes
  /\ Dist2(nodes[n], pt) <= nodes[n].radius * nodes[n].radius
  /\ gesture' = [kind |-> "node", id |-> n,
                 offX |-> pt.x - nodes[n].x, offY |-> pt.y - nodes[n].y,
                 dragStartX |-> nodes[n].x, dragStartY |-> nodes[n].y,
                 radius |-> nodes[n].radius, stale |-> FALSE, last |-> {}]
  /\ nodeMoved' = [nodeMoved EXCEPT ![n] = FALSE]
  /\ frameCalls' = 0
  /\ settle' = NotSettling
  /\ UNCHANGED <<readonly, validate, pageVars, notes>>
  /\ focused' = {}
  /\ UNCHANGED <<graphVars, idVars, edgeIdToTransition, nodeAbortControllers, listeners,
                 editMode, edgeMoved, changeScheduled, timers, onChangeTimeoutId,
                 viewVars, unnotified, burst>>

\* onPointerMove of initializeNodeInteraction: state, visuals, the two dispatches,
\* and the requestAnimationFrame throttle.
NodePointerMove(pt) ==
  /\ InputEvent
  /\ NodeInteraction
  /\ gesture.kind = "node"
  /\ LET n == gesture.id
         nx == pt.x - gesture.offX
         ny == pt.y - gesture.offY
         far == nx # gesture.dragStartX \/ ny # gesture.dragStartY
         S1 == IF gesture.stale THEN Store
               ELSE [Store EXCEPT !.nodes[n].x = nx, !.nodes[n].y = ny]
         S2 == DispatchUpdatePos(S1, n)
         \* the closure's node object: the one in fsmState unless the node was removed
         node == IF gesture.stale THEN [x |-> nx, y |-> ny, radius |-> gesture.radius]
                 ELSE S2.nodes[n]
         S3 == DispatchNodeMove(S2, n, node)
     IN /\ Commit(S3)
        /\ nodeMoved' = IF far /\ n \in DOMAIN nodeMoved
                          THEN [nodeMoved EXCEPT ![n] = TRUE] ELSE nodeMoved
        /\ gesture' = [gesture EXCEPT !.last = {[x |-> nx, y |-> ny]}]
        /\ changeScheduled' = changeScheduled \cup {n}
  /\ settle' = NotSettling
  /\ UNCHANGED <<readonly, validate, pageVars, notes>>
  /\ focused' = {}
  /\ UNCHANGED <<nodeId, editMode, edgeMoved, frameCalls>>

\* onPointerUp of initializeNodeInteraction: dragging = false; tryOnChange(fsmState)
NodePointerUp ==
  /\ InputEvent
  /\ NodeInteraction
  /\ gesture.kind = "node"
  /\ Commit(tryOnChange(Store))
  /\ gesture' = NoGesture
  /\ settle' = [active |-> TRUE, calls |-> 0, id |-> gesture.id, last |-> gesture.last,
                stale |-> gesture.stale]
  /\ UNCHANGED <<readonly, validate, pageVars, notes>>
  /\ focused' = {}
  /\ frameCalls' = 0
  /\ UNCHANGED <<nodeId, editMode, nodeMoved, edgeMoved, changeScheduled>>

\* g 'dblclick': set the start state.
NodeDblClick(n) ==
  /\ InputEvent
  /\ NodeInteraction
  /\ gesture.kind = "none"
  /\ editMode = "default"
  /\ n \in DOMAIN nodes
  /\ ~nodeMoved[n]
  /\ start # {n}
  /\ Commit(tryOnChange(DispatchSetStart([Store EXCEPT !.start = {n}], n)))
  /\ settle' = NotSettling
  /\ UNCHANGED <<readonly, validate, pageVars, notes>>
  /\ focused' = {}
  /\ UNCHANGED <<nodeId, editMode, gesture, nodeMoved, edgeMoved, changeScheduled,
                 frameCalls>>

\* g 'click' in remove mode: removeNode(id)
NodeClickRemove(n) ==
  /\ InputEvent
  /\ NodeInteraction
  /\ gesture.kind = "none"
  /\ editMode = "remove"
  /\ n \in DOMAIN nodes
  /\ LET S == removeNode(Store, n)
     IN /\ Commit(S)
        /\ nodeMoved' = NodeClosures(S, nodeMoved)
        /\ edgeMoved' = EdgeClosures(S, edgeMoved)
  /\ settle' = NotSettling
  /\ UNCHANGED <<readonly, validate, pageVars, notes>>
  /\ focused' = {}
  /\ UNCHANGED <<nodeId, editMode, gesture, changeScheduled, frameCalls>>

\* g 'click' in link or add mode: the handler returns at `mode !== 'default'`, and the
\* svg 'click' handler the event bubbles to returns at `e.target !== svg`.
NodeClickIgnored(n) ==
  /\ InputEvent
  /\ NodeInteraction
  /\ gesture.kind = "none"
  /\ editMode \in {"link", "add"}
  /\ n \in DOMAIN nodes
  /\ settle' = NotSettling
  /\ UNCHANGED <<readonly, validate, pageVars, notes>>
  /\ focused' = {}
  /\ UNCHANGED <<graphVars, idVars, edgeIdToTransition, nodeAbortControllers, listeners,
                 editMode, gesture, nodeMoved, edgeMoved, changeScheduled, timers,
                 onChangeTimeoutId, viewVars, unnotified, burst, frameCalls>>

\* g 'click' in default mode, `moved` unset: a single click focuses the inner editor,
\* the handler returns at `e.detail !== 1` for the others.
NodeClick(n, detail) ==
  /\ InputEvent
  /\ NodeInteraction
  /\ gesture.kind = "none"
  /\ editMode = "default"
  /\ n \in DOMAIN nodes
  /\ ~nodeMoved[n]
  /\ focused' = IF detail = 1 THEN {InnerField(n)} ELSE {}
  /\ settle' = NotSettling
  /\ UNCHANGED <<graphVars, idVars, edgeIdToTransition, nodeAbortControllers, listeners,
                 editMode, gesture, nodeMoved, edgeMoved, changeScheduled, timers,
                 onChangeTimeoutId, viewVars, unnotified, burst, frameCalls, readonly, validate, pageVars,
                 notes>>

\* g 'click' in default mode after a drag: moved = false (the click is swallowed).
\* The browser dispatches this click for the pointer-up that ended the drag: it
\* belongs to the drag's input.
NodeClickAfterDrag(n) ==
  /\ NodeInteraction
  /\ gesture.kind = "none"
  /\ editMode = "default"
  /\ n \in DOMAIN nodes
  /\ nodeMoved[n]
  /\ nodeMoved' = [nodeMoved EXCEPT ![n] = FALSE]
  /\ UNCHANGED <<graphVars, idVars, edgeIdToTransition, nodeAbortControllers, listeners,
                 editMode, gesture, edgeMoved, changeScheduled, timers,
                 onChangeTimeoutId, viewVars, unnotified, burst, frameCalls, settle,
                 events, readonly, validate, pageVars, focused, notes>>

\* g 'contextmenu': removeNode(id), whatever the mode and also during a gesture.
NodeContextMenu(n) ==
  /\ InputEvent
  /\ NodeInteraction
  /\ n \in DOMAIN nodes
  /\ LET S == removeNode(Store, n)
     IN /\ Commit(S)
        /\ nodeMoved' = NodeClosures(S, nodeMoved)
        /\ edgeMoved' = EdgeClosures(S, edgeMoved)
  /\ gesture' = Detach(gesture, n)
  /\ settle' = NotSettling
  /\ UNCHANGED <<readonly, validate, pageVars, notes>>
  /\ focused' = {}
  /\ UNCHANGED <<nodeId, editMode, changeScheduled, frameCalls>>

\* ------------------------------------------------------------------ edge drag
\* startDrag (hitPath/arrow 'pointerdown', left button, single click), any mode.
EdgePointerDown(e, pt) ==
  /\ InputEvent
  /\ EdgeInteraction
  /\ gesture.kind = "none"
  /\ e \in DOMAIN edgeIdToTransition
  /\ LET source == edgeIdToTransition[e].from
         t == heap[edgeIdToTransition[e].obj]
     IN gesture' =
          [kind |-> "edge", id |-> e, source |-> source, to |-> t.to, down |-> pt,
           \* history: the transition's offset and rotation when the pointer went down
           at |-> [offset |-> t.offset, rotation |-> t.rotation],
           dragBase |-> IF source # t.to
                          THEN {[p0 |-> Center(nodes[source]), p3 |-> Center(nodes[t.to]),
                                 startProj |-> SignedDistance(Center(nodes[source]),
                                                              Center(nodes[t.to]), pt),
                                 startOffset |-> t.offset]}
                          ELSE {}]
  /\ edgeMoved' = [edgeMoved EXCEPT ![e] = FALSE]
  /\ frameCalls' = 0
  /\ settle' = NotSettling
  /\ UNCHANGED <<readonly, validate, pageVars, notes>>
  /\ focused' = {}
  /\ UNCHANGED <<graphVars, idVars, edgeIdToTransition, nodeAbortControllers, listeners,
                 editMode, nodeMoved, changeScheduled, timers, onChangeTimeoutId,
                 viewVars, unnotified, burst>>

\* onPointerMove's `dx * dx + dy * dy > 144`
edgeMoveThreshold == 144

BeyondThreshold(down, pt) ==
  (pt.x - down.x) * (pt.x - down.x) + (pt.y - down.y) * (pt.y - down.y) > edgeMoveThreshold

\* The transition fields an edge drag's pointer-move writes through the registry.
\* A faulty drag: the offset is recomputed from the pointer position alone.
EdgeDragWrite_absolute(S, g, pt) ==
  LET obj == S.reg[g.id].obj
  IN IF g.source = g.to
       THEN [S EXCEPT !.heap[obj].rotation =
               {Atan2Deg(pt.y - S.nodes[g.source].y, pt.x - S.nodes[g.source].x)}]
       ELSE LET b == CHOOSE d \in g.dragBase : TRUE
            IN [S EXCEPT !.heap[obj].offset = SignedDistance(b.p0, b.p3, pt)]

\* onPointerMove's write: the rotation of a self-loop, or the offset by the delta of the
\* pointer's projection since the drag started.
EdgeDragWrite(S, g, pt) ==
  LET obj == S.reg[g.id].obj
  IN IF g.source = g.to
       THEN [S EXCEPT !.heap[obj].rotation =
               {Atan2Deg(pt.y - S.nodes[g.source].y, pt.x - S.nodes[g.source].x)}]
       ELSE LET b == CHOOSE d \in g.dragBase : TRUE
            IN [S EXCEPT !.heap[obj].offset =
                  b.startOffset + (SignedDistance(b.p0, b.p3, pt) - b.startProj)]

\* A faulty updateEdgeElement: the label keeps the layout it had.
updateEdgeElement_keepsLabel(S, id) == [S EXCEPT !.geom[id] = computeEdgeGeom(S, id)]

\* updateEdgeElement: this edge's path, arrow and label are recomputed.
updateEdgeElement(S, id) ==
  [S EXCEPT !.geom[id] = computeEdgeGeom(S, id), !.anchor[id] = getAutoAnchor(S, id)]

\* onPointerMove of initializeEdgeInteraction, for an edge still in the registry.
EdgePointerMove(pt) ==
  /\ InputEvent
  /\ EdgeInteraction
  /\ gesture.kind = "edge"
  /\ gesture.id \in DOMAIN edgeIdToTransition
  /\ gesture.source = gesture.to =>
       AxisAligned(pt.y - nodes[gesture.source].y, pt.x - nodes[gesture.source].x)
  /\ LET S1 == EdgeDragWrite(Store, gesture, pt)
     IN /\ S1.heap[S1.reg[gesture.id].obj].offset \in DragOffsets
        /\ Commit(tryOnChange(updateEdgeElement([S1 EXCEPT !.byDrag = TRUE], gesture.id)))
  /\ edgeMoved' = IF BeyondThreshold(gesture.down, pt)
                    THEN [edgeMoved EXCEPT ![gesture.id] = TRUE] ELSE edgeMoved
  /\ settle' = NotSettling
  /\ UNCHANGED <<readonly, validate, pageVars, notes>>
  /\ focused' = {}
  /\ UNCHANGED <<nodeId, editMode, gesture, nodeMoved, changeScheduled, frameCalls>>

\* onPointerUp of initializeEdgeInteraction.
EdgePointerUp ==
  /\ InputEvent
  /\ EdgeInteraction
  /\ gesture.kind = "edge"
  /\ gesture' = NoGesture
  /\ frameCalls' = 0
  /\ settle' = NotSettling
  /\ UNCHANGED <<readonly, validate, pageVars, notes>>
  \* if (!moved) edgeInput.focus(): nothing happens once the editor has left the document
  /\ focused' = IF gesture.id \in DOMAIN edgeIdToTransition /\ ~edgeMoved[gesture.id]
                  THEN {EdgeField(gesture.id)} ELSE {}
  /\ UNCHANGED <<graphVars, idVars, edgeIdToTransition, nodeAbortControllers, listeners,
                 editMode, nodeMoved, edgeMoved, changeScheduled, timers,
                 onChangeTimeoutId, viewVars, unnotified, burst>>

\* The clicks a double-click is made of carry e.detail = 1 and 2.
ClickDetails == {1, 2}

\* path/arrow/hitPath 'click' that removes nothing: onClick returns at
\* `e.detail !== 1`, whatever the mode; outside remove mode a single click clears
\* `moved` or focuses the editor.  The svg 'click' handler returns at `e.target !== svg`.
EdgeClickOther(e, detail) ==
  /\ InputEvent
  /\ EdgeInteraction
  /\ gesture.kind = "none"
  /\ e \in DOMAIN edgeIdToTransition
  /\ detail # 1 \/ editMode # "remove"
  /\ edgeMoved' = IF detail = 1 THEN [edgeMoved EXCEPT ![e] = FALSE] ELSE edgeMoved
  /\ settle' = NotSettling
  /\ UNCHANGED <<readonly, validate, pageVars, notes>>
  /\ focused' = IF detail = 1 /\ ~edgeMoved[e] THEN {EdgeField(e)} ELSE {}
  /\ UNCHANGED <<graphVars, idVars, edgeIdToTransition, nodeAbortControllers, listeners,
                 editMode, gesture, nodeMoved, changeScheduled, timers,
                 onChangeTimeoutId, viewVars, unnotified, burst, frameCalls>>

\* path/arrow/hitPath 'click' with e.detail = 1 in remove mode: removeEdge(id)
EdgeClickRemove(e) ==
  /\ InputEvent
  /\ EdgeInteraction
  /\ gesture.kind = "none"
  /\ editMode = "remove"
  /\ e \in DOMAIN edgeIdToTransition
  /\ LET S == removeEdge(Store, e)
     IN /\ Commit(S)
        /\ edgeMoved' = EdgeClosures(S, edgeMoved)
  /\ settle' = NotSettling
  /\ UNCHANGED <<readonly, validate, pageVars, notes>>
  /\ focused' = {}
  /\ UNCHANGED <<nodeId, editMode, gesture, nodeMoved, changeScheduled, frameCalls>>

\* onPointerMove of initializeEdgeInteraction after the edge left the registry (with
\* an endpoint node or alone): `startNode.y` or `const [, trans] = edgeIdToTransition[id]`
\* reads undefined and the listener throws, before anything is written.
EdgePointerMoveRemoved(pt) ==
  /\ InputEvent
  /\ EdgeInteraction
  /\ gesture.kind = "edge"
  /\ gesture.id \notin DOMAIN edgeIdToTransition
  /\ notes' = notes \cup {"TypeError"}
  /\ focused' = {}
  /\ settle' = NotSettling
  /\ UNCHANGED <<graphVars, idVars, edgeIdToTransition, nodeAbortControllers, listeners,
                 editMode, gesture, nodeMoved, edgeMoved, changeScheduled, timers,
                 onChangeTimeoutId, viewVars, unnotified, burst, frameCalls, readonly, validate, pageVars>>

\* path/hitPath 'contextmenu': removeEdge(id), whatever the mode and also during a gesture.
EdgeContextMenu(e) ==
  /\ InputEvent
  /\ EdgeInteraction
  /\ e \in DOMAIN edgeIdToTransition
  /\ LET S == removeEdge(Store, e)
     IN /\ Commit(S)
        /\ edgeMoved' = EdgeClosures(S, edgeMoved)
  /\ settle' = NotSettling
  /\ UNCHANGED <<readonly, validate, pageVars, notes>>
  /\ focused' = {}
  /\ UNCHANGED <<nodeId, editMode, gesture, nodeMoved, changeScheduled, frameCalls>>

\* ------------------------------------------------------------------ link drag
\* startLink: g 'pointerdown' with Shift held or in link mode.
LinkPointerDown(n, shift) ==
  /\ InputEvent
  /\ NodeInteraction
  /\ gesture.kind = "none"
  /\ n \in DOMAIN nodes
  /\ shift \/ editMode = "link"
  /\ gesture' = [kind |-> "link", id |-> n, start |-> Center(nodes[n]),
                  radius |-> nodes[n].radius, preview |-> [kind |-> "empty"],
                  at |-> {}, saw |-> <<>>]
  /\ settle' = NotSettling
  /\ UNCHANGED <<readonly, validate, pageVars, notes>>
  /\ focused' = {}
  /\ UNCHANGED <<graphVars, idVars, edgeIdToTransition, nodeAbortControllers, listeners,
                 editMode, nodeMoved, edgeMoved, changeScheduled, timers,
                 onChangeTimeoutId, viewVars, unnotified, burst, frameCalls>>

\* onMoveLink: what the preview path and arrow are computed from for the pointer at pt:
\* over a node the edge's own curve (computeSelfEdgeGeom / computeNonSelfEdgeGeom with
\* the rotation or signed offset of pt), else a straight segment to the pointer.
onMoveLink(S, id, startPt, liveRadius, pt) ==
  LET hover == findNodeAtPt(S, pt)
  IN IF hover = {} THEN [kind |-> "line", p0 |-> startPt, r |-> liveRadius, to |-> pt]
     ELSE LET hoverId == CHOOSE k \in hover : TRUE
              target == S.nodes[hoverId]
          IN IF hoverId = id
               THEN [kind |-> "self", p0 |-> startPt, r |-> liveRadius,
                     rotation |-> {Atan2Deg(pt.y - startPt.y, pt.x - startPt.x)}]
               ELSE [kind |-> "cubic", p0 |-> startPt, p3 |-> Center(target),
                     r |-> target.radius,
                     offset |-> SignedDistance(startPt, Center(target), pt)]

\* window 'pointermove' during a link drag: the preview is redrawn.  (at and saw are
\* history: the pointer position and the nodes the preview was drawn for.)
LinkPointerMove(pt) ==
  /\ InputEvent
  /\ NodeInteraction
  /\ gesture.kind = "link"
  /\ findNodeAtPt(Store, pt) = {gesture.id}
       => AxisAligned(pt.y - gesture.start.y, pt.x - gesture.start.x)
  /\ gesture' = [gesture EXCEPT
                   !.preview = onMoveLink(Store, gesture.id, gesture.start,
                                          gesture.radius, pt),
                   !.at = {pt}, !.saw = nodes]
  /\ UNCHANGED <<graphVars, idVars, edgeIdToTransition, nodeAbortControllers, listeners,
                 editMode, nodeMoved, edgeMoved, changeScheduled, timers,
                 onChangeTimeoutId, viewVars, unnotified, burst, frameCalls, settle,
                 readonly, validate, pageVars, focused, notes>>

\* A faulty commit: the offset is the distance of the release point from the chord,
\* without its sign.
LinkCommit_unsigned(S, id, startPt, toId, pt) ==
  IF toId = id
    THEN addTransitionInternal(S, id, id, 0, 0,
                               {Atan2Deg(pt.y - startPt.y, pt.x - startPt.x)})
    ELSE addTransitionInternal(S, id, toId, 0,
                               Abs(SignedDistance(startPt, Center(S.nodes[toId]), pt)), {})

\* A faulty commit: the transition is added to the node the link was released over.
LinkCommit_reversed(S, id, startPt, toId, pt) ==
  IF toId = id
    THEN addTransitionInternal(S, id, id, 0, 0,
                               {Atan2Deg(pt.y - startPt.y, pt.x - startPt.x)})
    ELSE addTransitionInternal(S, toId, id, 0,
                               SignedDistance(startPt, Center(S.nodes[toId]), pt), {})

\* onUpLink's commit: a self-loop with a rotation, or an edge with a signed offset.
LinkCommit(S, id, startPt, toId, pt) ==
  IF toId = id
    THEN addTransitionInternal(S, id, id, 0, 0,
                               {Atan2Deg(pt.y - startPt.y, pt.x - startPt.x)})
    ELSE addTransitionInternal(S, id, toId, 0,
                               SignedDistance(startPt, Center(S.nodes[toId]), pt), {})

\* onUpLink released over a node: the transition is added, the mode returns to default;
\* runValidation()
LinkPointerUpOnNode(pt) ==
  /\ InputEvent
  /\ NodeInteraction
  /\ gesture.kind = "link"
  /\ findNodeAtPt(Store, pt) # {}
  /\ LET toId == CHOOSE k \in findNodeAtPt(Store, pt) : TRUE
         S == runValidation(LinkCommit(Store, gesture.id, gesture.start, toId, pt))
     IN /\ gesture.id \in DOMAIN nodes => edgeId <= MaxEdgeId
        /\ toId = gesture.id => AxisAligned(pt.y - gesture.start.y, pt.x - gesture.start.x)
        /\ \A o \in DOMAIN S.heap : S.heap[o].offset \in Offsets
        /\ Commit(S)
        /\ edgeMoved' = EdgeClosures(S, edgeMoved)
  /\ editMode' = "default"
  /\ gesture' = NoGesture
  /\ settle' = NotSettling
  /\ UNCHANGED <<readonly, validate, pageVars, notes>>
  /\ focused' = {}
  /\ UNCHANGED <<nodeId, nodeMoved, changeScheduled, frameCalls>>

\* A faulty release: the tool returns to select although no transition was added.
LinkPointerUpOnNothing_resetsMode(pt) ==
  /\ InputEvent
  /\ NodeInteraction
  /\ gesture.kind = "link"
  /\ findNodeAtPt(Store, pt) = {}
  /\ gesture' = NoGesture
  /\ editMode' = "default"
  /\ settle' = NotSettling
  /\ UNCHANGED <<readonly, validate, pageVars, notes>>
  /\ focused' = {}
  /\ UNCHANGED <<graphVars, idVars, edgeIdToTransition, nodeAbortControllers, listeners,
                 nodeMoved, edgeMoved, changeScheduled, timers,
                 onChangeTimeoutId, viewVars, unnotified, burst, frameCalls>>

\* onUpLink released over no node: only the preview and the listeners go.
LinkPointerUpOnNothing(pt) ==
  /\ InputEvent
  /\ NodeInteraction
  /\ gesture.kind = "link"
  /\ findNodeAtPt(Store, pt) = {}
  /\ gesture' = NoGesture
  /\ settle' = NotSettling
  /\ UNCHANGED <<readonly, validate, pageVars, notes>>
  /\ focused' = {}
  /\ UNCHANGED <<graphVars, idVars, edgeIdToTransition, nodeAbortControllers, listeners,
                 editMode, nodeMoved, edgeMoved, changeScheduled, timers,
                 onChangeTimeoutId, viewVars, unnotified, burst, frameCalls>>

\* ---------------------------------------------------------------- label editors
\* 'input' on a node's inner editor: unless the pattern rejects the text (the editor is
\* restored), n.innerLabel = input.value; tryOnChange; runValidation
NodeInnerInput(n, v) ==
  /\ InputEvent
  /\ NodeEditors
  /\ n \in DOMAIN nodes
  /\ v # inputValue[InnerField(n)]
  /\ Commit(IF editIsInvalid(validate, v) THEN Store
            ELSE runValidation(tryOnChange(
                   [Store EXCEPT !.nodes[n].innerLabel = v,
                                 !.inputs[InnerField(n)] = v])))
  /\ settle' = NotSettling
  /\ UNCHANGED <<readonly, validate, pageVars, notes>>
  /\ focused' = {}
  /\ UNCHANGED <<nodeId, editMode, gesture, nodeMoved, edgeMoved, changeScheduled,
                 frameCalls>>

\* A faulty outer 'input' handler: the text typed is not written to n.label.
NodeOuterInput_keepsLabel(n, v) ==
  /\ InputEvent
  /\ NodeEditors
  /\ n \in DOMAIN nodes
  /\ v # inputValue[OuterField(n)]
  /\ Commit(IF editIsInvalid(validate, v) THEN Store
            ELSE runValidation(tryOnChange(
                   [Store EXCEPT !.inputs[OuterField(n)] = v])))
  /\ settle' = NotSettling
  /\ UNCHANGED <<readonly, validate, pageVars, notes>>
  /\ focused' = {}
  /\ UNCHANGED <<nodeId, editMode, gesture, nodeMoved, edgeMoved, changeScheduled,
                 frameCalls>>

\* 'input' on a node's outer editor: unless the pattern rejects the text (the editor is
\* restored), n.label = input.value; tryOnChange; runValidation
NodeOuterInput(n, v) ==
  /\ InputEvent
  /\ NodeEditors
  /\ n \in DOMAIN nodes
  /\ v # inputValue[OuterField(n)]
  /\ Commit(IF editIsInvalid(validate, v) THEN Store
            ELSE runValidation(tryOnChange(
                   [Store EXCEPT !.nodes[n].label = v,
                                 !.inputs[OuterField(n)] = v])))
  /\ settle' = NotSettling
  /\ UNCHANGED <<readonly, validate, pageVars, notes>>
  /\ focused' = {}
  /\ UNCHANGED <<nodeId, editMode, gesture, nodeMoved, edgeMoved, changeScheduled,
                 frameCalls>>

\* 'input' on an edge's editor: unless the pattern rejects the text (the editor is
\* restored), trans.label = edgeInput.value; tryOnChange; runValidation
EdgeLabelInput(e, v) ==
  /\ InputEvent
  /\ EdgeEditor
  /\ e \in DOMAIN edgeIdToTransition
  /\ v # inputValue[EdgeField(e)]
  /\ Commit(IF editIsInvalid(validate, v) THEN Store
            ELSE runValidation(tryOnChange(
                   [Store EXCEPT !.heap[edgeIdToTransition[e].obj].label = v,
                                 !.inputs[EdgeField(e)] = v])))
  /\ settle' = NotSettling
  /\ UNCHANGED <<readonly, validate, pageVars, notes>>
  /\ focused' = {}
  /\ UNCHANGED <<nodeId, editMode, gesture, nodeMoved, edgeMoved, changeScheduled,
                 frameCalls>>

\* ------------------------------------------------------- events without a handler
\* A pointer, click, double-click, context-menu or key event in a readonly editor:
\* no listener was registered for it, nothing runs.
Unhandled ==
  /\ InputEvent
  /\ readonly
  /\ focused' = {}
  /\ UNCHANGED <<graphVars, idVars, edgeIdToTransition, nodeAbortControllers, listeners,
                 editMode, gesture, nodeMoved, edgeMoved, changeScheduled, timers,
                 onChangeTimeoutId, viewVars, unnotified, burst, frameCalls, settle,
                 readonly, validate, pageVars, notes>>

\* --------------------------------------------------- removal calls for absent ids
\* removeEdge(id) for an id that is not in edgeIdToTransition.
RemoveEdgeAbsent(e) ==
  /\ InputEvent
  /\ e \notin DOMAIN edgeIdToTransition
  /\ LET S == removeEdge(Store, e)
     IN /\ Commit(S)
        /\ edgeMoved' = EdgeClosures(S, edgeMoved)
  /\ notes' = notes \cup {"absent-edge"}
  /\ focused' = {}
  /\ settle' = NotSettling
  /\ UNCHANGED <<nodeId, editMode, gesture, nodeMoved, changeScheduled, frameCalls, readonly, validate, pageVars>>

\* removeNode(id) for an id that is not in fsmState.nodes.
RemoveNodeAbsent(n) ==
  /\ InputEvent
  /\ n \notin DOMAIN nodes
  /\ LET S == removeNode(Store, n)
     IN /\ Commit(S)
        /\ nodeMoved' = NodeClosures(S, nodeMoved)
        /\ edgeMoved' = EdgeClosures(S, edgeMoved)
  /\ notes' = notes \cup {"absent-node"}
  /\ focused' = {}
  /\ settle' = NotSettling
  /\ UNCHANGED <<nodeId, editMode, gesture, changeScheduled, frameCalls, readonly, validate, pageVars>>

\* ------------------------------------------------------------ timers and frames
\* The fsmState a timer callback hands to onChange: the live object, or a copy.
Deref(arg) == IF arg = <<>> THEN StateValue(nodes, start, heap) ELSE arg[1]

Bump(c) == Min(c + 1, 2)

\* The setTimeout callback of tryOnChange runs: onChange(fsmState).
TimerFire(t) ==
  /\ t \in timers
  /\ timers' = timers \ {t}
  /\ unnotified' = (Deref(t.arg) # StateValue(nodes, start, heap))
  /\ burst' = 0
  /\ frameCalls' = IF t.drag /\ gesture.kind \in {"node", "edge"}
                     THEN Bump(frameCalls) ELSE frameCalls
  /\ settle' = IF settle.active THEN [settle EXCEPT !.calls = Bump(@)] ELSE settle
  /\ onChangeTimeoutId' = IF onChangeTimeoutId = t.id THEN 0 ELSE onChangeTimeoutId
  /\ UNCHANGED <<graphVars, idVars, edgeIdToTransition, nodeAbortControllers, listeners,
                 editMode, gesture, nodeMoved, edgeMoved, changeScheduled,
                 viewVars, events, readonly, validate, pageVars, focused, notes>>

\* The requestAnimationFrame callbacks of the node drags: changeScheduled = false;
\* tryOnChange(fsmState), one after the other within the frame.
RECURSIVE RunFrameCallbacks(_, _)
RunFrameCallbacks(S, pending) ==
  IF pending = {} THEN S
  ELSE LET n == CHOOSE m \in pending : \A k \in pending : m <= k
       IN RunFrameCallbacks(tryOnChange([S EXCEPT !.byDrag = TRUE]), pending \ {n})

\* A frame is rendered: the pending animation-frame callbacks run.
AnimationFrame ==
  /\ changeScheduled # {} \/ frameCalls # 0
  /\ Commit(RunFrameCallbacks(Store, changeScheduled))
  /\ changeScheduled' = {}
  /\ frameCalls' = 0
  /\ UNCHANGED <<nodeId, editMode, gesture, nodeMoved, edgeMoved, settle, events,
                 readonly, validate, pageVars, focused, notes>>

\* ------------------------------------------------------------- specification
UserNext ==
  \/ \E pt \in LinePoints : SvgDblClick(pt)
  \/ \E pt \in Points : SvgDblClickIgnored(pt)
  \/ \E pt \in LinePoints : SvgClickAdd(pt)
  \/ \E m \in Modes : SetMode(m)
  \/ \E n \in NodeIds, pt \in LinePoints : NodePointerDown(n, pt)
  \/ \E n \in NodeIds : NodePointerDownIgnored(n)
  \/ \E pt \in LinePoints : NodePointerMove(pt)
  \/ NodePointerUp
  \/ \E n \in NodeIds : NodeDblClick(n)
  \/ \E n \in NodeIds : NodeClickRemove(n)
  \/ \E n \in NodeIds : NodeClickIgnored(n)
  \/ \E n \in NodeIds, detail \in ClickDetails : NodeClick(n, detail)
  \/ \E n \in NodeIds : NodeClickAfterDrag(n)
  \/ \E n \in NodeIds : NodeContextMenu(n)
  \/ \E e \in EdgeIds, pt \in Points : EdgePointerDown(e, pt)
  \/ \E pt \in Points : EdgePointerMove(pt)
  \/ \E pt \in Points : EdgePointerMoveRemoved(pt)
  \/ EdgePointerUp
  \/ \E e \in EdgeIds : EdgeClickRemove(e)
  \/ \E e \in EdgeIds, detail \in ClickDetails : EdgeClickOther(e, detail)
  \/ \E e \in EdgeIds : EdgeContextMenu(e)
  \/ \E n \in NodeIds, shift \in BOOLEAN : LinkPointerDown(n, shift)
  \/ \E pt \in Points : LinkPointerUpOnNode(pt)
  \/ \E pt \in Points : LinkPointerUpOnNothing(pt)
  \/ \E n \in NodeIds, v \in Labels : NodeInnerInput(n, v)
  \/ \E n \in NodeIds, v \in Labels : NodeOuterInput(n, v)
  \/ \E e \in EdgeIds, v \in Labels : EdgeLabelInput(e, v)
  \/ Unhandled

Next ==
  \/ UserNext
  \/ \E t \in timers : TimerFire(t)
  \/ AnimationFrame

Spec == Init /\ [][UserNext]_vars

\* The editor's handlers, and removeEdge / removeNode called for ids that are gone.
CallNext ==
  \/ UserNext
  \/ \E e \in EdgeIds : RemoveEdgeAbsent(e)
  \/ \E n \in NodeIds : RemoveNodeAbsent(n)

CallSpec == Init /\ [][CallNext]_vars

\* The edge gestures, the pointer of a drag also moving by less than the threshold.
EdgeDragNext ==
  \/ \E m \in Modes : SetMode(m)
  \/ \E e \in EdgeIds, pt \in Points : EdgePointerDown(e, pt)
  \/ \E pt \in DragPoints : EdgePointerMove(pt)
  \/ \E pt \in DragPoints : EdgePointerMoveRemoved(pt)
  \/ EdgePointerUp
  \/ \E e \in EdgeIds : EdgeClickRemove(e)
  \/ \E e \in EdgeIds, detail \in ClickDetails : EdgeClickOther(e, detail)
  \/ \E e \in EdgeIds : EdgeContextMenu(e)
  \/ \E n \in NodeIds : NodeContextMenu(n)
  \/ Unhandled

\* The initial states of the edge-drag sessions: also two nodes joined by a transition
\* that is already curved, or by two transitions with the same destination, label and
\* offset.
CurvedStates ==
  InitialStates \cup
  {[nodes |-> [n \in {0, 1} |-> InitialNode(200 * n, <<n>>)],
    keys |-> <<0, 1>>,
    start |-> {0},
    heap |-> [o \in {0, 1} |-> [to |-> 0, label |-> 0, offset |-> o * c, rotation |-> {}]]] :
     c \in Offsets}
  \cup
  {[nodes |-> [n \in {0, 1} |-> InitialNode(200 * n, IF n = 0 THEN <<0>> ELSE <<1, 2>>)],
    keys |-> <<0, 1>>,
    start |-> {0},
    heap |-> [o \in {0, 1, 2} |-> [to |-> 0, label |-> 0, offset |-> 0, rotation |-> {}]]]}

EdgeDragSpec == InitFrom(CurvedStates, {NoValidation}) /\ [][EdgeDragNext]_vars

\* Label editing under every validate option: nodes are created, links are drawn,
\* labels are typed into, nodes and edges are removed.
EditNext ==
  \/ \E pt \in LinePoints : SvgDblClick(pt)
  \/ \E n \in NodeIds : LinkPointerDown(n, TRUE)
  \/ \E pt \in LinePoints : LinkPointerUpOnNode(pt)
  \/ \E n \in NodeIds, v \in Labels : NodeInnerInput(n, v)
  \/ \E n \in NodeIds, v \in Labels : NodeOuterInput(n, v)
  \/ \E e \in EdgeIds, v \in Labels : EdgeLabelInput(e, v)
  \/ \E n \in NodeIds : NodeContextMenu(n)
  \/ \E e \in EdgeIds : EdgeContextMenu(e)
  \/ Unhandled

EditSpec == InitFrom(InitialStates, ValidateConfigs) /\ [][EditNext]_vars

\* Validators that fail the empty text with a message, fail every other text, or throw
\* on the empty text; no pattern.
MessageConfigs ==
  [enabled : {TRUE}, pattern : {{}},
   validator : {{[empty |-> "message", other |-> "true"]},
                {[empty |-> "true", other |-> "false"]},
                {[empty |-> "throws", other |-> "message"]}}]

\* The editing operations with a validator configured.
MessageSpec == InitFrom(InitialStates, MessageConfigs) /\ [][EditNext]_vars

\* Label editing under every kind of input pattern.
PatternSpec == InitFrom(InitialStates, PatternConfigs) /\ [][EditNext]_vars

\* The link gestures: a link drag with its preview, released over a node or over
\* nothing, also after its source node was removed or the tool was changed.
LinkNext ==
  \/ \E m \in Modes : SetMode(m)
  \/ \E n \in NodeIds, shift \in BOOLEAN : LinkPointerDown(n, shift)
  \/ \E pt \in Points : LinkPointerMove(pt)
  \/ \E pt \in Points : LinkPointerUpOnNode(pt)
  \/ \E pt \in Points : LinkPointerUpOnNothing(pt)
  \/ \E n \in NodeIds : NodeContextMenu(n)

LinkSpec == Init /\ [][LinkNext]_vars

\* ------------------------------------------------------- the page's stepper
\* FsmBuilder.vue: the component's model `state` is the object the editor was given as
\* initialState and hands to onChange, i.e. fsmState itself.
variables == {"a", "b"}

\* booleanParser.parse(label, { alphabet: variables }) for the label texts of the
\* stepping sessions: 0 is "" (a SyntaxError, here no expression), 1 is "a", 2 is "b",
\* 3 is "a+b", 4 is "1", any other is "0".
parse(label) ==
  CASE label = 0 -> {}
    [] label = 1 -> {[type |-> "var", symbol |-> "a"]}
    [] label = 2 -> {[type |-> "var", symbol |-> "b"]}
    [] label = 3 -> {[type |-> "add", left |-> [type |-> "var", symbol |-> "a"],
                                      right |-> [type |-> "var", symbol |-> "b"]]}
    [] label = 4 -> {[type |-> "true"]}
    [] OTHER -> {[type |-> "false"]}

RECURSIVE evaluateBooleanExpression(_, _)
evaluateBooleanExpression(expr, context) ==
  CASE expr.type = "add" -> \/ evaluateBooleanExpression(expr.left, context)
                            \/ evaluateBooleanExpression(expr.right, context)
    [] expr.type = "mul" -> /\ evaluateBooleanExpression(expr.left, context)
                            /\ evaluateBooleanExpression(expr.right, context)
    [] expr.type = "not" -> ~evaluateBooleanExpression(expr.expr, context)
    [] expr.type = "var" -> expr.symbol \in DOMAIN context /\ context[expr.symbol]
    [] expr.type = "true" -> TRUE
    [] expr.type = "false" -> FALSE
    [] OTHER -> FALSE

\* context[v] = inputs.value[v][0] === '1'
Context == [v \in variables |-> Head(inputs[v]) = 1]

\* step()'s loop over the current node's transitions: each label is parsed (a throw
\* ends the handler), then every variable must have a symbol left (else an alert and
\* return), then the target is collected if the expression is true.
RECURSIVE StepLoop(_, _)
StepLoop(ts, targets) ==
  IF ts = <<>> THEN [end |-> "done", targets |-> targets]
  ELSE LET transition == heap[Head(ts)]
           expr == parse(transition.label)
       IN IF expr = {} THEN [end |-> "SyntaxError", targets |-> targets]
          ELSE IF \E v \in variables : inputs[v] = <<>>
            THEN [end |-> "no input", targets |-> targets]
          ELSE StepLoop(Tail(ts),
                        IF evaluateBooleanExpression(CHOOSE e \in expr : TRUE, Context)
                          THEN Append(targets, transition.to) ELSE targets)

\* step(): the Step Forward button.  Without a current node it becomes state.start;
\* else the transitions of state.nodes[currentNode] are read (a TypeError when that
\* node is gone), and with exactly one target the stepper moves there and every
\* variable's input loses its first symbol; otherwise an alert.
Step ==
  /\ InputEvent
  /\ IF currentNode = {}
       THEN currentNode' = start /\ UNCHANGED <<inputs, notes>>
       ELSE LET cur == CHOOSE k \in currentNode : TRUE
            IN IF cur \notin DOMAIN nodes
                 THEN /\ notes' = notes \cup {"step-TypeError"}
                      /\ UNCHANGED <<currentNode, inputs>>
                 ELSE LET r == StepLoop(nodes[cur].transitions, <<>>)
                      IN IF r.end = "SyntaxError"
                           THEN /\ notes' = notes \cup {"step-SyntaxError"}
                                /\ UNCHANGED <<currentNode, inputs>>
                         ELSE IF r.end = "done" /\ Len(r.targets) = 1
                           THEN /\ currentNode' = {r.targets[1]}
                                /\ inputs' = [v \in variables |-> Tail(inputs[v])]
                                /\ UNCHANGED notes
                         ELSE UNCHANGED <<currentNode, inputs, notes>>
  /\ UNCHANGED <<graphVars, idVars, edgeIdToTransition, nodeAbortControllers, listeners,
                 editMode, gesture, nodeMoved, edgeMoved, changeScheduled, timers,
                 onChangeTimeoutId, viewVars, unnotified, burst, frameCalls, settle,
                 readonly, validate, initialState, peer, legacy>>
  /\ focused' = {}

\* The Reset button: currentNode = undefined
Reset ==
  /\ InputEvent
  /\ currentNode' = {}
  /\ UNCHANGED <<graphVars, idVars, edgeIdToTransition, nodeAbortControllers, listeners,
                 editMode, gesture, nodeMoved, edgeMoved, changeScheduled, timers,
                 onChangeTimeoutId, viewVars, unnotified, burst, frameCalls, settle,
                 readonly, validate, initialState, peer, inputs, legacy, notes>>
  /\ focused' = {}

\* ------------------------------------------------- the index-based format
\* idToIndex[id]: the position of id in Object.entries(state.nodes), undefined ({})
\* for an id that is no node.
IndexOf(ks, id) == {i - 1 : i \in {j \in DOMAIN ks : ks[j] = id}}

\* Math.hypot(a, b), rounded down to whole px.
Hypot(a, b) == SqrtFrom(a * a + b * b, 0, Abs(a) + Abs(b) + 1)

\* The Link entries of the nodes ks in order, each node's transitions in order.
RECURSIVE LinksOf(_, _)
LinksOf(g, ks) ==
  IF ks = <<>> THEN <<>>
  ELSE LET ts == g.nodes[Head(ks)].transitions
       IN [j \in DOMAIN ts |->
             [type |-> "Link", nodeA |-> IndexOf(g.keys, Head(ks)),
              nodeB |-> IndexOf(g.keys, g.heap[ts[j]].to),
              text |-> g.heap[ts[j]].label,
              deltaX |-> g.heap[ts[j]].offset, deltaY |-> g.heap[ts[j]].offset]]
          \o LinksOf(g, Tail(ks))

fsmStateToBackwardsCompatible(g) ==
  [nodes |-> [i \in DOMAIN g.keys |->
                [text |-> g.nodes[g.keys[i]].innerLabel, label |-> g.nodes[g.keys[i]].label,
                 x |-> g.nodes[g.keys[i]].x, y |-> g.nodes[g.keys[i]].y]],
   links |-> LinksOf(g, g.keys) \o
             (IF g.start = {} THEN <<>>
              ELSE <<[type |-> "StartLink",
                      node |-> UNION {IndexOf(g.keys, id) : id \in g.start}]>>),
   nodeRadius |-> IF g.keys = <<>> THEN 10 ELSE g.nodes[g.keys[1]].radius]

\* state.links.forEach: a Link between two nodes is pushed on its source's list with
\* offset hypot(deltaX, deltaY) and no rotation; a StartLink to a node sets start.
RECURSIVE ReadLinks(_, _, _)
ReadLinks(ns, st, links) ==
  IF links = <<>> THEN [nodes |-> ns, start |-> st]
  ELSE LET link == Head(links)
       IN IF link.type = "Link"
            THEN IF link.nodeA \subseteq DOMAIN ns /\ link.nodeB \subseteq DOMAIN ns
                      /\ link.nodeA # {} /\ link.nodeB # {}
                   THEN LET fromId == CHOOSE k \in link.nodeA : TRUE
                            toId == CHOOSE k \in link.nodeB : TRUE
                        IN ReadLinks([ns EXCEPT ![fromId].transitions =
                                        Append(@, [to |-> toId, label |-> link.text,
                                                   offset |-> Hypot(link.deltaX, link.deltaY),
                                                   rotation |-> {}])],
                                     st, Tail(links))
                   ELSE ReadLinks(ns, st, Tail(links))
            ELSE IF link.node # {} /\ link.node \subseteq DOMAIN ns
                   THEN ReadLinks(ns, link.node, Tail(links))
                   ELSE ReadLinks(ns, st, Tail(links))

\* A faulty conversion: a link is pushed on the list of its destination.
fsmStateFromBackwardsCompatible_reversed(state) ==
  LET ids == {i - 1 : i \in DOMAIN state.nodes}
      ns == [id \in ids |->
               [label |-> state.nodes[id + 1].label, innerLabel |-> state.nodes[id + 1].text,
                x |-> state.nodes[id + 1].x, y |-> state.nodes[id + 1].y,
                transitions |-> <<>>, radius |-> state.nodeRadius]]
      r == ReadLinks(ns, {},
                     [i \in DOMAIN state.links |->
                        IF state.links[i].type = "Link"
                          THEN [state.links[i] EXCEPT !.nodeA = state.links[i].nodeB,
                                                      !.nodeB = state.links[i].nodeA]
                          ELSE state.links[i]])
  IN [nodes |-> r.nodes, keys |-> [i \in DOMAIN state.nodes |-> i - 1], start |-> r.start]

\* fsmStateFromBackwardsCompatible: node i becomes node-i with the radius nodeRadius;
\* the transitions of the result are the transition objects themselves.
fsmStateFromBackwardsCompatible(state) ==
  LET ids == {i - 1 : i \in DOMAIN state.nodes}
      ns == [id \in ids |->
               [label |-> state.nodes[id + 1].label, innerLabel |-> state.nodes[id + 1].text,
                x |-> state.nodes[id + 1].x, y |-> state.nodes[id + 1].y,
                transitions |-> <<>>, radius |-> state.nodeRadius]]
      r == ReadLinks(ns, {}, state.links)
  IN [nodes |-> r.nodes, keys |-> [i \in DOMAIN state.nodes |-> i - 1], start |-> r.start]

\* What fsmState holds.
Graph == [nodes |-> nodes, keys |-> keys, start |-> start, heap |-> heap]

\* The page shows the state in the index-based format (App.vue's textareaContent with
\* legacy checked), and what is shown is read back.
RoundTrip ==
  /\ InputEvent
  /\ legacy' = {[of |-> Graph, out |-> fsmStateToBackwardsCompatible(Graph),
                 back |-> fsmStateFromBackwardsCompatible(
                            fsmStateToBackwardsCompatible(Graph))]}
  /\ focused' = {}
  /\ UNCHANGED <<graphVars, idVars, edgeIdToTransition, nodeAbortControllers, listeners,
                 editMode, gesture, nodeMoved, edgeMoved, changeScheduled, timers,
                 onChangeTimeoutId, viewVars, unnotified, burst, frameCalls, settle,
                 readonly, validate, initialState, peer, currentNode, inputs, notes>>

\* The graphs of a page session: node-2 at the origin, then node-0 with a smaller
\* radius; node-2 has a transition to node-0 labelled "a" or "1" and curved or not,
\* and a second one, to node-0 or a rotated self-loop, labelled "", "b" or "a+b".
PageStates ==
  {[nodes |-> [n \in {0, 2} |->
                 IF n = 2 THEN InitialNode(0, <<0, 1>>)
                 ELSE [InitialNode(200, <<>>) EXCEPT !.radius = 20, !.innerLabel = 1]],
    keys |-> <<2, 0>>,
    start |-> st,
    heap |-> [o \in {0, 1} |->
                IF o = 0 THEN [to |-> 0, label |-> l1, offset |-> c, rotation |-> {}]
                ELSE [to |-> t2, label |-> l2, offset |-> 0,
                      rotation |-> IF t2 = 2 THEN {90} ELSE {}]]] :
     st \in {{}, {2}}, l1 \in {1, 4}, l2 \in {0, 2, 3}, t2 \in {0, 2}, c \in Offsets}

\* The validate option FsmBuilder.vue constructs the editor with: a pattern for edge
\* labels and the parser as validator (a message for the empty text).
PageConfig ==
  [enabled |-> TRUE, pattern |-> {[found |-> Labels \ {0}, full |-> Labels \ {0}]},
   validator |-> {[empty |-> "message", other |-> "true"]}]

BitSeqs(n) == UNION {[1..k -> {0, 1}] : k \in 0..n}

PageNext ==
  \/ Step
  \/ Reset
  \/ RoundTrip
  \/ \E n \in NodeIds : NodeContextMenu(n)
  \/ Unhandled

\* A page session: the editor on one of the graphs, the stepper reset, up to MaxInput
\* symbols of input for a and at most one for b.
PageSpec ==
  /\ InitEditor(PageStates, {PageConfig})
  /\ initialState = "own"
  /\ peer = NoPeer
  /\ currentNode = {}
  /\ inputs \in [a : BitSeqs(MaxInput), b : BitSeqs(1)]
  /\ legacy = {}
  /\ [][PageNext]_vars

\* ------------------------------------------------------------- two editors
\* createFSMBuilder takes `initialState = defaultFSMOptions.initialState` and binds
\* `fsmState = initialState`: an editor constructed without initialState works on the
\* module's one default object, an editor given an initialState on that object.  Two
\* editors are on the page, each constructed either way; the one whose events are
\* followed finds in its object what earlier edits left there.
TwinInit ==
  /\ InitEditor(InitialStates, {NoValidation})
  /\ \E mine \in {"default", "own"}, its \in {"default", "own"} :
       /\ initialState = mine
       /\ peer = [initialState |-> its,
                  state |-> IF mine = "default" /\ its = "default"
                              THEN {} ELSE {[nodes |-> EmptyFn, keys |-> <<>>,
                                             start |-> {}, heap |-> EmptyFn]}]
  /\ currentNode = {}
  /\ inputs = EmptyFn
  /\ legacy = {}

TwinSpec == TwinInit /\ [][UserNext]_vars

\* The graph state the second editor works on and hands to its onChange: what its own
\* object holds, or this editor's graph when both are bound to the default object.
PeerState == IF peer.state = {} THEN Graph ELSE CHOOSE g \in peer.state : TRUE

\* The initial states of the geometry sessions: node-0 with a self-loop, of radius 0 or
\* the default, and node-1 with a transition to node-0, 200 px away or Overlap px away
\* (its centre inside node-0's circle); the self-loop rotated or not, the transition
\* curved or not.
GeomStates ==
  {[nodes |-> [n \in {0, 1} |->
                 [InitialNode(n * x, <<n>>) EXCEPT !.radius = IF n = 0 THEN r ELSE @]],
    keys |-> <<0, 1>>,
    start |-> {0},
    heap |-> [o \in {0, 1} |-> [to |-> 0, label |-> 0, offset |-> o * c,
                                rotation |-> IF o = 0 THEN rot ELSE {}]]] :
     x \in {Overlap, 200}, r \in {0, defaultRadius}, c \in Offsets, rot \in {{}, {90}}}

\* The gestures that make the editor recompute its curves: node drags and edge drags.
GeomNext ==
  \/ \E n \in NodeIds, pt \in LinePoints : NodePointerDown(n, pt)
  \/ \E pt \in LinePoints : NodePointerMove(pt)
  \/ NodePointerUp
  \/ \E e \in EdgeIds, pt \in Points : EdgePointerDown(e, pt)
  \/ \E pt \in DragPoints : EdgePointerMove(pt)
  \/ EdgePointerUp

GeomSpec == InitFrom(GeomStates, {NoValidation}) /\ [][GeomNext]_vars

NotifySpec == Init /\ [][Next]_vars

\* The event loop runs a pending timer callback and renders frames.
LiveSpec ==
  Init /\ [][Next]_vars /\ WF_vars(\E t \in timers : TimerFire(t)) /\ WF_vars(AnimationFrame)

\* ------------------------------------------------------------------ properties
\* The transition objects in some node's transition list.
LiveTransitions == UNION {Range(nodes[n].transitions) : n \in DOMAIN nodes}

\* C1: every transition's destination id is a key of the node map, and the start
\* field is undefined or a key of the node map, after any sequence of operations.
C1_NoDanglingReferences ==
  /\ \A n \in DOMAIN nodes : \A i \in DOMAIN nodes[n].transitions :
        heap[nodes[n].transitions[i]].to \in DOMAIN nodes
  /\ start \subseteq DOMAIN nodes

\* A transition to a second node was added and that node then removed, with the
\* transitions to and from it; the node that stays keeps its self-loop.
C1_Witness ==
  /\ edgeId = 3
  /\ Cardinality(DOMAIN nodes) = 1
  /\ Cardinality(DOMAIN edgeIdToTransition) = 1
  /\ start # {}

\* C2: a step that removes node N removes exactly N, removes every transition whose
\* source or destination is N, clears start if it was N, and leaves every other
\* transition and every other node's position, radius and labels as they were.
C2_RemoveNodeExact ==
  [][\A N \in DOMAIN nodes : N \notin DOMAIN nodes' =>
       /\ DOMAIN nodes' = DOMAIN nodes \ {N}
       /\ start' = start \ {N}
       /\ \A m \in DOMAIN nodes' :
            /\ nodes'[m].x = nodes[m].x
            /\ nodes'[m].y = nodes[m].y
            /\ nodes'[m].radius = nodes[m].radius
            /\ nodes'[m].label = nodes[m].label
            /\ nodes'[m].innerLabel = nodes[m].innerLabel
            /\ nodes'[m].transitions =
                 SelectSeq(nodes[m].transitions, LAMBDA o : heap[o].to # N)
            /\ \A o \in Range(nodes'[m].transitions) : heap'[o] = heap[o]]_vars

\* The start node has been removed with its self-loop and an edge from a node that stays.
C2_Witness ==
  /\ start = {}
  /\ ~startMarker.visible
  /\ edgeId = 2
  /\ DOMAIN edgeIdToTransition = {}
  /\ DOMAIN nodes # {}

\* C3: the edge registry holds exactly one edge id for each transition object in a
\* node's transition list, none for a removed transition, and no two transitions
\* share an edge id.
C3_RegistryExact ==
  /\ \A n \in DOMAIN nodes : \A i \in DOMAIN nodes[n].transitions :
        Cardinality({e \in DOMAIN edgeIdToTransition :
                       /\ edgeIdToTransition[e].obj = nodes[n].transitions[i]
                       /\ edgeIdToTransition[e].from = n}) = 1
  /\ \A e \in DOMAIN edgeIdToTransition :
        /\ edgeIdToTransition[e].from \in DOMAIN nodes
        /\ edgeIdToTransition[e].obj \in Range(nodes[edgeIdToTransition[e].from].transitions)
  /\ \A e1, e2 \in DOMAIN edgeIdToTransition :
        e1 # e2 => edgeIdToTransition[e1].obj # edgeIdToTransition[e2].obj
  /\ \A n, m \in DOMAIN nodes :
        \A i \in DOMAIN nodes[n].transitions, j \in DOMAIN nodes[m].transitions :
          nodes[n].transitions[i] = nodes[m].transitions[j] => n = m /\ i = j

\* Of two edges created, one has been removed and one is registered.
C3_Witness ==
  /\ edgeId = 2
  /\ Cardinality(DOMAIN edgeIdToTransition) = 1
  /\ Cardinality(LiveTransitions) = 1
  /\ start # {}

\* C4: a step that allocates a node id adds one node under an id that was not live
\* and leaves every node that was live as it was.
C4_FreshNodeId ==
  [][nodeId' # nodeId =>
       /\ Cardinality(DOMAIN nodes') = Cardinality(DOMAIN nodes) + 1
       /\ \A n \in DOMAIN nodes : n \in DOMAIN nodes' /\ nodes'[n] = nodes[n]]_vars

\* One creation beside the supplied node-0: the counter has been scanned past it.
C4_Witness ==
  /\ events = 1
  /\ nodeId = 2
  /\ keys = <<0, 1>>

\* C5: the start marker is visible exactly when start is defined; a step that removes
\* the start node leaves start undefined and the marker hidden.
C5_StartMarkerVisible ==
  /\ [](startMarker.visible <=> start # {})
  /\ [][\A n \in start : n \notin DOMAIN nodes' =>
          start' = {} /\ ~startMarker'.visible]_vars

\* The supplied start node is still there with its self-loop, and start is undefined:
\* another node was designated start and then removed.
C5_Witness ==
  /\ 0 \in DOMAIN heap
  /\ start = {}
  /\ ~startMarker.visible

\* C6: once a node drag has ended with pointer-up, at most one onChange is delivered,
\* in whatever order the pending timer and animation-frame callbacks run, and the
\* node is where the last pointer-move put it.
C6_OneChangeAfterDrag ==
  settle.active =>
    /\ settle.calls <= 1
    /\ (~settle.stale /\ settle.last # {} /\ settle.id \in DOMAIN nodes)
          => Center(nodes[settle.id]) \in settle.last

\* The position half of C6 alone.
C6_FinalPosition ==
  (settle.active /\ ~settle.stale /\ settle.last # {} /\ settle.id \in DOMAIN nodes)
    => Center(nodes[settle.id]) \in settle.last

\* C7: every committed mutation of the graph state is eventually followed by an
\* onChange call whose state contains every mutation committed before the call.
C7_EventuallyNotified == unnotified ~> ~unnotified

\* A node was created, an edge removed, and onChange has delivered all of it.
C7_Witness ==
  /\ ~unnotified
  /\ timers = {}
  /\ nodeId > 0
  /\ edgeId > Cardinality(DOMAIN edgeIdToTransition)

\* C8: at most one onChange timer is pending, and the tryOnChange calls made since
\* the last callback, however many, are answered by exactly one pending callback.
C8_Coalesced ==
  /\ Cardinality(timers) <= 1
  /\ burst > 0 <=> timers # {}

\* Several mutations since the last callback, one timer pending.
C8_Witness ==
  /\ burst = 2
  /\ Cardinality(timers) = 1
  /\ unnotified

\* C9: during a node drag or an edge drag, onChange is delivered at most once per
\* rendered frame.
C9_OncePerFrame == gesture.kind \in {"node", "edge"} => frameCalls <= 1

\* The node-drag half of C9 alone.
C9_NodeDragOncePerFrame == gesture.kind = "node" => frameCalls <= 1

\* C10: at the end of every event callback the rendered edges, mask shapes and start
\* marker are those computed from the graph state; so they are after a callback
\* that changed a node's position.
C10_ViewFresh ==
  /\ DOMAIN edgeGeom = DOMAIN edgeIdToTransition
  /\ \A e \in DOMAIN edgeIdToTransition : edgeGeom[e] = computeEdgeGeom(Store, e)
  /\ {maskShapes[i].id : i \in DOMAIN maskShapes} = DOMAIN nodes
  /\ \A i \in DOMAIN maskShapes :
       maskShapes[i].shape = MaskShapeOf(nodes[maskShapes[i].id])
  /\ \A n \in start : n \in DOMAIN nodes => startMarker.tip = {StartTipOf(nodes[n])}

\* The start node, which has a transition, has been dragged to another position.
C10_Witness ==
  \E n \in DOMAIN nodes :
    /\ nodeMoved[n]
    /\ start = {n}
    /\ nodes[n].transitions # <<>>
    /\ nodes[n].x # 0

\* C11: once removeNode(N) has been processed, no listener for N's position-changed
\* or removed events is attached any more, so none is invoked: a later pointer-move
\* of a drag of N that is still in progress recomputes no edge, updates no mask
\* shape and leaves the start marker where it is.
C11_NoListenerAfterRemoval ==
  /\ [](\A l \in listeners : l.on \in DOMAIN nodes)
  /\ [][(gesture.kind = "node" /\ gesture.stale /\ \E pt \in LinePoints : NodePointerMove(pt))
          => UNCHANGED viewVars]_vars

\* A drag of a removed node has handled a pointer-move.
C11_Witness ==
  /\ gesture.kind = "node"
  /\ gesture.stale
  /\ gesture.last # {}
  /\ gesture.id \notin DOMAIN nodes

\* The listeners the live nodes and edges imply: each edge's position and removal
\* listeners on its two endpoints, each node's mask-shape listener.
ImpliedListeners ==
  UNION {EdgeListeners(e, edgeIdToTransition[e].from, heap[edgeIdToTransition[e].obj].to) :
           e \in DOMAIN edgeIdToTransition}
    \cup {MaskListener(n) : n \in DOMAIN nodes}

\* The entity a listener belongs to is still there after the step.
Survives(l) ==
  IF l.owner = "edge" THEN l.id \in DOMAIN edgeIdToTransition' ELSE l.id \in DOMAIN nodes'

\* C12: cancelling an entity's token detaches exactly that entity's listeners: a step
\* that removes an edge, or a node with its incident edges, detaches the listeners of
\* what it removed and no others; so after any add/remove cycles the attached
\* position/removal listeners are exactly those the live nodes and edges imply.
C12_ListenersExact ==
  /\ [](listeners = ImpliedListeners)
  /\ [][\A l \in listeners : l \in listeners' <=> Survives(l)]_vars

\* An edge was removed while another edge and a node's mask shape stay subscribed.
C12_Witness ==
  /\ edgeId > Cardinality(DOMAIN edgeIdToTransition)
  /\ \E l \in listeners : l.owner = "edge"
  /\ \E l \in listeners : l.owner = "mask"

\* The gesture in progress refers to an edge or a node that has been removed.
StaleGesture ==
  \/ gesture.kind = "edge" /\ gesture.id \notin DOMAIN edgeIdToTransition
  \/ gesture.kind \in {"node", "link"} /\ gesture.id \notin DOMAIN nodes

\* A pointer-move or pointer-up of the gesture in progress.
GestureStep ==
  \/ \E pt \in LinePoints : NodePointerMove(pt)
  \/ NodePointerUp
  \/ \E pt \in Points : EdgePointerMove(pt)
  \/ \E pt \in Points : EdgePointerMoveRemoved(pt)
  \/ EdgePointerUp
  \/ \E pt \in Points : LinkPointerUpOnNode(pt)
  \/ \E pt \in Points : LinkPointerUpOnNothing(pt)

\* C13: when the node or edge a gesture refers to was removed while the gesture is in
\* progress, every later pointer-move and pointer-up of that gesture leaves the node
\* map, the transition lists, the start field and the edge registry unchanged and
\* does not throw.
C13_StaleGestureNoOp ==
  [][(StaleGesture /\ GestureStep)
       => (UNCHANGED <<graphVars, edgeIdToTransition>>
           /\ "TypeError" \notin notes' \ notes)]_vars

\* The half of C13 that holds: such a gesture never changes the graph state.
C13_StaleGestureKeepsGraph ==
  [][(StaleGesture /\ GestureStep) => UNCHANGED <<graphVars, edgeIdToTransition>>]_vars

\* A call of removeEdge or removeNode for an id that is not there.
AbsentCall ==
  \/ \E e \in EdgeIds : RemoveEdgeAbsent(e)
  \/ \E n \in NodeIds : RemoveNodeAbsent(n)

\* C14: removeEdge called with an edge id that is not in the edge registry, and
\* removeNode called with a node id that is not in the node map, leave the node map,
\* all transition lists, the start field and the edge registry unchanged and do not
\* throw.
C14_AbsentIdNoOp ==
  [][AbsentCall => (UNCHANGED <<nodes, keys, start, heap, edgeIdToTransition>>
                    /\ "TypeError" \notin notes' \ notes)]_vars

\* Both calls were made on a graph that has a start node and an edge.
C14_Witness ==
  /\ notes = {"absent-edge", "absent-node"}
  /\ start # {}
  /\ DOMAIN edgeIdToTransition # {}

\* C15: in an editor constructed with readonly set, no pointer, click, double-click,
\* context-menu or keyboard event changes the graph state or the tool mode or
\* schedules an onChange notification: no gesture handler and no label input exists
\* for nodes, edges or the background.
C15_ReadonlyInert ==
  [][readonly => UNCHANGED <<graphVars, edgeIdToTransition, editMode, gesture,
                   timers, onChangeTimeoutId, changeScheduled>>]_vars

\* A readonly editor showing nodes and edges has received events.
C15_Witness ==
  /\ readonly
  /\ events >= 2
  /\ DOMAIN edgeIdToTransition # {}

\* The step appends to node a's list one new transition object o with destination b
\* and the empty label, registers one new edge id for it, and changes nothing else
\* of the graph.
AppendsOne(a, b) ==
  \E o \in DOMAIN heap' \ DOMAIN heap :
    /\ nodes' = [nodes EXCEPT ![a].transitions = Append(@, o)]
    /\ heap' = Put(heap, o, heap'[o])
    /\ heap'[o].to = b
    /\ heap'[o].label = 0
    /\ \E e \in DOMAIN edgeIdToTransition' \ DOMAIN edgeIdToTransition :
         edgeIdToTransition' = Put(edgeIdToTransition, e, [from |-> a, obj |-> o])
    /\ UNCHANGED <<keys, start>>

\* C16: a link drag started from node A (link tool or modifier) and released over a
\* node B appends exactly one new transition to A's list with destination B and
\* empty label (a self-loop when B = A), creates its edge identity, and sets the
\* tool mode to select; nothing else in the graph changes.
C16_LinkCommitsOne ==
  [][\A pt \in Points :
       (LinkPointerUpOnNode(pt) /\ gesture.id \in DOMAIN nodes)
         => (/\ AppendsOne(gesture.id, CHOOSE b \in findNodeAtPt(Store, pt) : TRUE)
             /\ editMode' = "default")]_vars

\* A link between two different nodes was committed and the tool is select again.
C16_Witness ==
  /\ editMode = "default"
  /\ gesture.kind = "none"
  /\ \E n \in DOMAIN nodes :
       /\ Len(nodes[n].transitions) = 2
       /\ heap[nodes[n].transitions[2]].to # n
       /\ heap[nodes[n].transitions[2]].label = 0

\* The step creates exactly one node, under an id that was not in use, at pt, with
\* empty labels, the default radius and no transitions; the rest of the graph stays.
CreatesOneNodeAt(pt) ==
  \E k \in DOMAIN nodes' \ DOMAIN nodes :
    /\ nodes' = Put(nodes, k, [label |-> 0, innerLabel |-> 0, x |-> pt.x, y |-> pt.y,
                               radius |-> defaultRadius, transitions |-> <<>>])
    /\ keys' = Append(keys, k)
    /\ UNCHANGED <<start, heap, edgeIdToTransition>>

\* C17: in add mode a click on empty canvas creates exactly one node at the pointer
\* position with a freshly allocated id, empty outer and inner labels, the default
\* radius and an empty transition list, and the tool mode is select afterwards; a
\* click that lands on an existing node or edge in add mode creates nothing and
\* leaves the mode add.
C17_AddModeClick ==
  /\ [][\A pt \in LinePoints :
          SvgClickAdd(pt) => (CreatesOneNodeAt(pt) /\ editMode' = "default")]_vars
  /\ [][(editMode = "add"
            /\ \/ \E n \in NodeIds : NodeClickIgnored(n)
               \/ \E e \in EdgeIds, detail \in ClickDetails : EdgeClickOther(e, detail))
          => (UNCHANGED <<graphVars, edgeIdToTransition>> /\ editMode' = "add")]_vars

\* After the add tool was chosen and the canvas clicked: a node without transitions
\* under a counter-allocated id next to a supplied node, the tool select again.
C17_Witness ==
  /\ editMode = "default"
  /\ events = 2
  /\ nodeId > 0
  /\ Cardinality(DOMAIN nodes) = 2
  /\ \E k \in DOMAIN nodes : nodes[k].transitions = <<>> /\ nodes[k].x = 200

\* After the step node n is gone with every transition from or to it and their edge
\* ids, and the tool is still remove.
NodeGone(n) ==
  /\ n \notin DOMAIN nodes'
  /\ \A m \in DOMAIN nodes' : \A i \in DOMAIN nodes'[m].transitions :
       heap'[nodes'[m].transitions[i]].to # n
  /\ \A e \in DOMAIN edgeIdToTransition' :
       edgeIdToTransition'[e].from # n /\ heap'[edgeIdToTransition'[e].obj].to # n
  /\ editMode' = "remove"

\* After the step edge e is gone from the registry and its transition from its
\* source's list, and the tool is still remove.
EdgeGone(e) ==
  /\ e \notin DOMAIN edgeIdToTransition'
  /\ LET from == edgeIdToTransition[e].from
     IN from \in DOMAIN nodes'
          /\ edgeIdToTransition[e].obj \notin Range(nodes'[from].transitions)
  /\ editMode' = "remove"

\* C18: in remove mode a click on a node removes that node (with cascade) and a click
\* on an edge removes that edge's transition, and after either deletion the tool
\* mode is still remove, so consecutive clicks delete consecutive elements.
C18_RemoveModeClick ==
  /\ [][\A n \in NodeIds : NodeClickRemove(n) => NodeGone(n)]_vars
  /\ [][\A e \in EdgeIds, detail \in ClickDetails :
          (editMode = "remove" /\ (EdgeClickRemove(e) \/ EdgeClickOther(e, detail)))
            => EdgeGone(e)]_vars

\* The part of C18 that holds: node clicks, and edge clicks with e.detail = 1.
C18_SingleClickRemoves ==
  /\ [][\A n \in NodeIds : NodeClickRemove(n) => NodeGone(n)]_vars
  /\ [][\A e \in EdgeIds : EdgeClickRemove(e) => EdgeGone(e)]_vars

\* pt lands on an existing node: within radius + defaultRadius of its centre.
LandsOnNode(pt) ==
  \E k \in DOMAIN nodes :
    (pt.x - nodes[k].x) * (pt.x - nodes[k].x) + (pt.y - nodes[k].y) * (pt.y - nodes[k].y)
      <= (nodes[k].radius + defaultRadius) * (nodes[k].radius + defaultRadius)

\* A double-click at pt: on the background, or on the node whose centre pt is.
DblClickAt(pt) ==
  \/ SvgDblClick(pt)
  \/ SvgDblClickIgnored(pt)
  \/ \E n \in DOMAIN nodes : Center(nodes[n]) = pt /\ NodeDblClick(n)

\* C19: a background double-click creates a node only while the tool mode is select
\* and only when the click point does not land on an existing node; in link, add or
\* remove mode, or when the point hits an existing node, a double-click creates no
\* node.
C19_DblClickCreates ==
  [][\A pt \in Points :
       \/ /\ DOMAIN nodes' # DOMAIN nodes => (editMode = "default" /\ ~LandsOnNode(pt))
          /\ (editMode # "default" \/ LandsOnNode(pt)) => UNCHANGED <<nodes, keys>>
       \/ ~DblClickAt(pt)]_vars

\* One double-click on the background next to a supplied node created a node.
C19_Witness ==
  /\ events = 1
  /\ editMode = "default"
  /\ Cardinality(DOMAIN nodes) = 2
  /\ \E k \in DOMAIN nodes : nodes[k].transitions = <<>> /\ nodes[k].x = 200

\* Node n is in the graph before and after the step, at another position.
Repositioned(n) ==
  /\ n \in DOMAIN nodes
  /\ n \in DOMAIN nodes'
  /\ nodes'[n].x # nodes[n].x \/ nodes'[n].y # nodes[n].y

\* C20: a node's position is changed by pointer-move events only between a
\* pointer-down on that node made in select mode without the link modifier and the
\* next pointer-up; a pointer-down on a node in link, add or remove mode never
\* starts a node drag, and after pointer-up the position stays.
C20_MovesOnlyInDrag ==
  /\ [][\A n \in NodeIds :
          Repositioned(n) => (/\ gesture.kind = "node"
                              /\ gesture.id = n
                              /\ \E pt \in LinePoints : NodePointerMove(pt))]_vars
  /\ [][(gesture.kind # "node" /\ gesture'.kind = "node")
          => (/\ editMode = "default"
              /\ \E n \in NodeIds, pt \in LinePoints : NodePointerDown(n, pt))]_vars
  /\ [][(gesture.kind = "node" /\ gesture'.kind # "node") => NodePointerUp]_vars

\* A drag has moved its node away from where the pointer went down.
C20_Witness ==
  /\ gesture.kind = "node"
  /\ gesture.id \in DOMAIN nodes
  /\ nodes[gesture.id].x # gesture.dragStartX

\* C21: an edge drag that ends with pointer-up without the pointer ever having
\* exceeded the movement threshold is treated as a click: the edge's label editor is
\* focused, and the transition's offset (its rotation, for a self-loop) equals its
\* value at pointer-down.
C21_UnmovedDragIsClick ==
  [][(/\ gesture.kind = "edge"
      /\ gesture.id \in DOMAIN edgeIdToTransition
      /\ ~edgeMoved[gesture.id]
      /\ EdgePointerUp)
       => (/\ focused' = {EdgeField(gesture.id)}
           /\ heap'[edgeIdToTransition[gesture.id].obj].offset = gesture.at.offset
           /\ heap'[edgeIdToTransition[gesture.id].obj].rotation = gesture.at.rotation)]_vars

\* The part of C21 that holds: such a pointer-up focuses the edge's label editor.
C21_UnmovedDragFocuses ==
  [][(/\ gesture.kind = "edge"
      /\ gesture.id \in DOMAIN edgeIdToTransition
      /\ ~edgeMoved[gesture.id]
      /\ EdgePointerUp)
       => focused' = {EdgeField(gesture.id)}]_vars

\* ------------------------------------------------------------ label editing
Fields ==
  {EdgeField(e) : e \in EdgeIds} \cup {InnerField(n) : n \in NodeIds}
    \cup {OuterField(n) : n \in NodeIds}

\* The text the data model holds for the label a field edits.
LabelOf(f) ==
  IF f.kind = "edge" THEN heap[edgeIdToTransition[f.id].obj].label
  ELSE IF f.kind = "innerNode" THEN nodes[f.id].innerLabel
  ELSE nodes[f.id].label

\* The 'input' handler of field f runs for a keystroke that made the text v.  (A
\* handler touches no editor but its own: steps that change another editor are told
\* apart by that before the handler is computed.)
EditStep(f, v) ==
  /\ \A g \in DOMAIN inputValue \ {f} :
       g \in DOMAIN inputValue' /\ inputValue'[g] = inputValue[g]
  /\ \/ f.kind = "edge" /\ EdgeLabelInput(f.id, v)
     \/ f.kind = "innerNode" /\ NodeInnerInput(f.id, v)
     \/ f.kind = "outerNode" /\ NodeOuterInput(f.id, v)

\* What the configured validator does with the text v, "none" without a validator.
Verdict(v) ==
  IF ~validate.enabled \/ validate.validator = {} THEN "none"
  ELSE LET w == CHOOSE u \in validate.validator : TRUE
       IN IF v = 0 THEN w.empty ELSE w.other

\* C22: a validator that throws is treated as one returning false: the field is marked
\* invalid with the default message and nothing escapes the handler; and a failing
\* validator (throw, false or message) never blocks editing: the text typed is written
\* to the data model and to the editor, also in a field that is already marked invalid.
C22_ValidatorFailureKeepsEditing ==
  [][\A f \in Fields, v \in Labels :
       (~editIsInvalid(validate, v) /\ EditStep(f, v)) =>
         /\ LabelOf(f)' = v
         /\ inputValue'[f] = v
         /\ notes' = notes
         /\ Verdict(v) \in {"throws", "false"} =>
              (f \in DOMAIN invalid' /\ invalid'[f] = [default |-> TRUE, value |-> v])
         /\ Verdict(v) = "message" =>
              (f \in DOMAIN invalid' /\ invalid'[f] = [default |-> FALSE, value |-> v])]_vars

\* The validator throws on every text; a field that was marked invalid from the start
\* has been edited, holds the new text and is marked invalid for it.
C22_Witness ==
  /\ validate.enabled
  /\ validate.validator = {[empty |-> "throws", other |-> "throws"]}
  /\ \E f \in DOMAIN invalid :
       /\ invalid[f] = [default |-> TRUE, value |-> 1]
       /\ LabelOf(f) = 1

\* The marks are those runValidation computes from the texts the editors show.
FreshMarks == invalid = runValidation(Store).invalid

\* C23: after every input event of a node's inner or outer editor or of an edge's
\* editor the label in the data model equals the text the editor shows - the text
\* typed, unless the input's pattern rejected it and the handler restored the editor -
\* and the validation marks are those of a validation run on the texts shown.
C23_LabelFollowsEditor ==
  [][\A f \in Fields, v \in Labels :
       EditStep(f, v) =>
         /\ LabelOf(f)' = inputValue'[f]
         /\ ~editIsInvalid(validate, v) => inputValue'[f] = v
         /\ FreshMarks']_vars

\* Each kind of label has been typed into: the three labels hold a non-empty text.
C23_Witness ==
  /\ \E n \in DOMAIN nodes : nodes[n].innerLabel # 0 /\ inputValue[InnerField(n)] # 0
  /\ \E n \in DOMAIN nodes : nodes[n].label # 0 /\ inputValue[OuterField(n)] # 0
  /\ \E e \in DOMAIN edgeIdToTransition : LabelOf(EdgeField(e)) # 0

\* ------------------------------------------------------------- label anchor
\* C24: the anchor an edge's label is laid out with is a function of the transition:
\* left for every self-loop, right for a non-self edge whose offset is >= 0 and left
\* for one whose offset is < 0; so it is after every offset change made by an edge drag.
C24_AnchorByOffset ==
  /\ DOMAIN labelAnchor = DOMAIN edgeIdToTransition
  /\ \A e \in DOMAIN edgeIdToTransition :
       LET t == heap[edgeIdToTransition[e].obj]
       IN labelAnchor[e] =
            IF edgeIdToTransition[e].from = t.to THEN "left"
            ELSE IF t.offset >= 0 THEN "right" ELSE "left"

\* An edge drag in progress has made the offset of a non-self edge negative.
C24_Witness ==
  /\ gesture.kind = "edge"
  /\ gesture.id \in DOMAIN edgeIdToTransition
  /\ gesture.source # gesture.to
  /\ gesture.at.offset >= 0
  /\ heap[edgeIdToTransition[gesture.id].obj].offset < 0
  /\ labelAnchor[gesture.id] = "left"

\* ------------------------------------------------------------ occlusion mask
\* C25: after any sequence of node creations, removals and moves the mask holds
\* exactly one circle per live node and none for a removed node, each at its node's
\* current position; and the circle of a node that stays is the same element before
\* and after every step: the mask is changed one circle at a time, never rebuilt.
C25_MaskIncremental ==
  /\ [](/\ Len(maskShapes) = Cardinality(DOMAIN nodes)
        /\ {maskShapes[i].id : i \in DOMAIN maskShapes} = DOMAIN nodes
        /\ \A i \in DOMAIN maskShapes :
             maskShapes[i].shape = MaskShapeOf(nodes[maskShapes[i].id]))
  /\ [][\A i \in DOMAIN maskShapes :
          maskShapes[i].id \in DOMAIN nodes' =>
            \E j \in DOMAIN maskShapes' :
              /\ maskShapes'[j].id = maskShapes[i].id
              /\ maskShapes'[j].made = maskShapes[i].made]_vars

\* Of the two nodes the editor was constructed with one was removed, and a node was
\* created: the mask holds a circle from the construction and a later one.
C25_Witness ==
  /\ edgeId = 2
  /\ Len(maskShapes) = 2
  /\ \E i, j \in DOMAIN maskShapes : maskShapes[i].made = 0 /\ maskShapes[j].made > 0

\* ---------------------------------------------------------------- edge drag
\* (q - M) . n for the chord midpoint M and left normal n of the chord from a to b
Proj(a, b, q) ==
  LET dx == Sign(b.x - a.x)
      dy == Sign(b.y - a.y)
  IN ((2 * q.x - (a.x + b.x)) * (0 - dy) + (2 * q.y - (a.y + b.y)) * dx) \div 2

\* C30: during the drag of a non-self edge, after each pointer-move at P the offset is
\* startOffset + ((P - M) . n - (P0 - M) . n), M and n being the chord midpoint and left
\* normal at pointer-down, P0 the pointer-down point and startOffset the offset at
\* pointer-down; a pointer-move to P0 leaves the offset at startOffset.
C30_RelativeDrag ==
  [][\A pt \in DragPoints :
       (/\ gesture.kind = "edge"
        /\ gesture.source # gesture.to
        /\ EdgePointerMove(pt))
         => LET b == CHOOSE d \in gesture.dragBase : TRUE
                offset == heap'[edgeIdToTransition[gesture.id].obj].offset
            IN /\ offset = gesture.at.offset
                            + (Proj(b.p0, b.p3, pt) - Proj(b.p0, b.p3, gesture.down))
               /\ pt = gesture.down => offset = gesture.at.offset]_vars

\* A drag that started off the chord on an edge that was already curved has changed
\* the offset.
C30_Witness ==
  /\ gesture.kind = "edge"
  /\ gesture.source # gesture.to
  /\ gesture.id \in DOMAIN edgeIdToTransition
  /\ gesture.at.offset # 0
  /\ gesture.down.y # 0
  /\ heap[edgeIdToTransition[gesture.id].obj].offset \notin {0, gesture.at.offset}

\* -------------------------------------------------------------- curve engine
\* The rendered edges by kind, with what computeEdgeGeom read for them.
Rendered(kind) ==
  {edgeGeom[e] : e \in {k \in DOMAIN edgeGeom : edgeGeom[k].kind = kind}}

\* |a - b|^2 in (1/PerPx px)^2, b in px
Gap2(a, b) ==
  (a.x - PerPx * b.x) * (a.x - PerPx * b.x) + (a.y - PerPx * b.y) * (a.y - PerPx * b.y)

\* The point a is within half a px of the circle of radius r px around b.
NearCircle(a, b, r) ==
  /\ Gap2(a, b) < (PerPx * r + PerPx \div 2) * (PerPx * r + PerPx \div 2)
  /\ 2 * r >= 1 => Gap2(a, b) > (PerPx * r - PerPx \div 2) * (PerPx * r - PerPx \div 2)

\* C26: for every non-self edge and every offset the arrow tip computeNonSelfEdgeGeom
\* returns is within a small tolerance (half a px) of the destination node's circle,
\* also when the Newton iteration is clamped or the two nodes overlap.
C26_TipOnBoundary ==
  \A g \in Rendered("cubic") :
    NearCircle(computeNonSelfEdgeGeom(g.p0, g.p3, g.r, g.offset).tipPt, g.p3, g.r)

\* The part of C26 that holds: the tip is on the destination's circle when the source
\* centre is outside the circle the root is searched on.
C26_TipOnBoundaryApart ==
  \A g \in Rendered("cubic") :
    (g.p0.x - g.p3.x) * (g.p0.x - g.p3.x) + (g.p0.y - g.p3.y) * (g.p0.y - g.p3.y)
        > (g.r + 1) * (g.r + 1)
      => NearCircle(computeNonSelfEdgeGeom(g.p0, g.p3, g.r, g.offset).tipPt, g.p3, g.r)

C28_FiniteGeometry ==
  /\ \A g \in Rendered("self") :
       LET loop == computeSelfEdgeGeom(g.p0, g.r, CHOOSE deg \in g.rotation : TRUE)
       IN loop.startPt # {} /\ loop.endPt # {}
  /\ \A g \in Rendered("cubic") :
       computeNonSelfEdgeGeom(g.p0, g.p3, g.r, g.offset).tInt \in 0..PerOne

\* The part of C28 that holds: the curve of a non-self edge is finite, also between
\* coincident centres and to a node of radius zero.
C28_FiniteCubic ==
  \A g \in Rendered("cubic") :
    computeNonSelfEdgeGeom(g.p0, g.p3, g.r, g.offset).tInt \in 0..PerOne

\* C29: for a non-self edge (between distinct centres) the curve point at t = 0.5 is
\* the chord midpoint displaced along the chord's left normal by 0.6 times the signed
\* offset: on the chord for offset 0, on opposite sides for offsets of opposite sign.
C29_MidpointByOffset ==
  \A g \in Rendered("cubic") :
    g.p0 # g.p3 =>
      LET mid == computeNonSelfEdgeGeom(g.p0, g.p3, g.r, g.offset).mid
          nx == 0 - Sign(g.p3.y - g.p0.y)
          ny == Sign(g.p3.x - g.p0.x)
          mx == (PerPx * (g.p0.x + g.p3.x)) \div 2
          my == (PerPx * (g.p0.y + g.p3.y)) \div 2
          k == (6 * PerPx) \div 10
      IN /\ mid.x = mx + k * g.offset * nx
         /\ mid.y = my + k * g.offset * ny
         /\ Sign((mid.x - mx) * nx + (mid.y - my) * ny) = Sign(g.offset)

\* An edge drag has bent a non-self edge to its right.
C29_Witness ==
  /\ gesture.kind = "edge"
  /\ \E g \in Rendered("cubic") : g.p0 # g.p3 /\ g.offset < 0 /\ g.offset # gesture.at.offset
\* ------------------------------------------------------------- link preview
\* C31: for every release point over a node the edge a link drag commits is rendered
\* from the curve parameters the preview uses for that pointer position - the same
\* source centre, target and radius, and the same offset (non-self) or rotation
\* (self-loop): those onMoveLink computes there, and those the preview was last drawn
\* with if it was drawn for this position and these nodes.
C31_CommitMatchesPreview ==
  [][\A pt \in Points :
       \/ \A e \in DOMAIN edgeGeom' \ DOMAIN edgeGeom :
            /\ edgeGeom'[e] = onMoveLink(Store, gesture.id, gesture.start,
                                         gesture.radius, pt)
            /\ (gesture.at = {pt} /\ gesture.saw = nodes) => edgeGeom'[e] = gesture.preview
       \/ ~LinkPointerUpOnNode(pt)]_vars

\* A link drag was released off the chord over another node: the committed edge is
\* curved, and the tool is select again.
C31_Witness ==
  /\ gesture.kind = "none"
  /\ editMode = "default"
  /\ \E e \in DOMAIN edgeGeom :
       /\ edgeGeom[e].kind = "cubic"
       /\ edgeGeom[e].offset # 0
       /\ heap[edgeIdToTransition[e].obj].offset = edgeGeom[e].offset

\* ------------------------------------------------------- removal by identity
\* The step is removeEdge(e) for a registered edge: a context menu on the edge, or a
\* click on it with the remove tool.
RemoveEdgeStep(e) == EdgeContextMenu(e) \/ EdgeClickRemove(e)

\* C32: removeEdge(E) removes from the source node's transition list exactly the one
\* transition object bound to E, also when another transition of the list has the same
\* destination, label and offset; the remaining transitions keep their order (and
\* their content), and every other node's list is unchanged.
C32_RemovesBoundTransition ==
  [][\A e \in DOMAIN edgeIdToTransition :
       LET from == edgeIdToTransition[e].from
           obj == edgeIdToTransition[e].obj
       IN \/ /\ from \in DOMAIN nodes /\ obj \in Range(nodes[from].transitions)
             /\ nodes' = [nodes EXCEPT ![from].transitions = SelectSeq(@, LAMBDA o : o # obj)]
             /\ Len(nodes'[from].transitions) = Len(nodes[from].transitions) - 1
             /\ \A o \in Range(nodes'[from].transitions) : heap'[o] = heap[o]
             /\ \A f \in DOMAIN edgeIdToTransition' :
                  edgeIdToTransition'[f].obj
                    \in Range(nodes'[edgeIdToTransition'[f].from].transitions)
          \/ ~RemoveEdgeStep(e)]_vars

\* Of two transitions with the same destination, label and offset the second was
\* removed through its edge: the first and its edge are still there.
C32_Witness ==
  \E n \in DOMAIN nodes, e \in DOMAIN edgeIdToTransition :
    /\ nextObj = 3
    /\ nodes[n].transitions = <<1>>
    /\ edgeIdToTransition[e] = [from |-> n, obj |-> 1]
    /\ \A f \in DOMAIN edgeIdToTransition : edgeIdToTransition[f].obj # 2
    /\ unnotified

\* ------------------------------------------------------------- node id reuse
\* The node ids something of the editor still refers to: live nodes, destinations of
\* transitions, sources of registered edges, start, the node controllers, the mask's
\* circles and the label editors.
ReferencedIds ==
  DOMAIN nodes \cup {heap[o].to : o \in DOMAIN heap}
    \cup {edgeIdToTransition[e].from : e \in DOMAIN edgeIdToTransition}
    \cup start \cup nodeAbortControllers
    \cup {maskShapes[i].id : i \in DOMAIN maskShapes}
    \cup {f.id : f \in {g \in DOMAIN inputValue : g.kind # "edge"}}

\* C33 as stated: once a node has been removed its id is never the id of a node again,
\* whatever the initial state.
C33_RemovedIdNeverReused ==
  \A k \in NodeIds :
    [](k \in DOMAIN nodes => [](k \notin DOMAIN nodes => [](k \notin DOMAIN nodes)))

\* C33 as the code has it: a node is never created under an id that anything still
\* refers to.  (The id of a removed node is free again: the counter starts at 0
\* whatever ids the initial state holds, and takes the first id no live node has.)
C33_NoReuseWhileReferenced ==
  [][\A k \in DOMAIN nodes' \ DOMAIN nodes : k \notin ReferencedIds]_vars

\* A node was created in the session (its circle is not one of the initial ones) under
\* an id below that of an initial node that is still live.
C33_Witness ==
  \E i, j \in DOMAIN maskShapes :
    /\ maskShapes[i].made > 0
    /\ maskShapes[j].made = 0
    /\ maskShapes[i].id < maskShapes[j].id

\* --------------------------------------------------------------- input pattern
\* The step changes nothing but the count of events: the editor shows what it showed,
\* the labels, the validation marks, the pending timers and the rest are as before.
EditRejected ==
  UNCHANGED <<graphVars, idVars, edgeIdToTransition, viewVars, timers, onChangeTimeoutId,
              unnotified, burst>>

\* C34: when a label editor carries a pattern and an input event leaves it with a
\* value that does not match the pattern (also the empty text when the pattern asks
\* for a character), the edit is rejected: the editor shows the value it had, the
\* label and the validation messages are unchanged and no onChange is scheduled.
C34_MismatchRejected ==
  [][\A f \in Fields, v \in Labels :
       \/ EditRejected
       \/ ~(validate.enabled /\ \E p \in validate.pattern : v \notin p.full)
       \/ ~EditStep(f, v)]_vars

\* The part of C34 that holds: an edit is rejected when no match of the pattern is
\* found in the value.
C34_NoMatchRejected ==
  [][\A f \in Fields, v \in Labels :
       \/ EditRejected
       \/ ~(validate.enabled /\ \E p \in validate.pattern : v \notin p.found)
       \/ ~EditStep(f, v)]_vars

\* ------------------------------------------------------ link released on nothing
\* C35: a link drag released where no node is found leaves the graph state as it was
\* (no transition object, no edge id, no rendered edge), ends the gesture (the preview
\* is removed, the window's pointer-move and pointer-up listeners are detached),
\* leaves the tool as it was and schedules no onChange.
C35_DropOnNothingInert ==
  [][\A pt \in Points :
       \/ /\ gesture' = NoGesture
          /\ editMode' = editMode
          /\ UNCHANGED <<graphVars, idVars, edgeIdToTransition, listeners, viewVars,
                         timers, onChangeTimeoutId, changeScheduled, unnotified, burst>>
       \/ ~LinkPointerUpOnNothing(pt)]_vars

\* A link drag with the link tool whose preview is the straight segment to a pointer
\* over no node, nothing being pending: the release there is the drop on nothing.
C35_Witness ==
  /\ gesture.kind = "link"
  /\ editMode = "link"
  /\ gesture.preview.kind = "line"
  /\ \E pt \in gesture.at : findNodeAtPt(Store, pt) = {}
  /\ timers = {}
  /\ ~unnotified

\* ------------------------------------------------------------- independence
\* C36: two editors constructed without an initialState have independent graph
\* states: no event handled by one editor (creating, removing or editing nodes and
\* transitions) changes the state the other editor observes.
C36_DefaultEditorsIndependent ==
  [][(initialState = "default" /\ peer.initialState = "default")
       => PeerState' = PeerState]_vars

\* The part that holds: an editor and a second one of which at least one was given
\* its own initialState object do not affect each other.
C36_OwnStateIndependent ==
  [][(initialState = "own" \/ peer.initialState = "own") => PeerState' = PeerState]_vars

\* ------------------------------------------------------- validation messages
\* The label field f belongs to a node or an edge of the graph.
FieldExists(f) ==
  IF f.kind = "edge" THEN f.id \in DOMAIN edgeIdToTransition ELSE f.id \in DOMAIN nodes

\* C37: with validation enabled and the editor not readonly, after every operation
\* (node creation, node removal, edge removal, link commit, label edit) the messages
\* shown are exactly those of the label fields that exist and fail their validator:
\* one per failing field, with the validator's message or the default one for the
\* text the field shows, none for a field of a removed node or edge - so the list
\* is empty, and the 'all valid' item is shown, exactly when no field fails.
C37_MessagesMatchFields ==
  (validate.enabled /\ ~readonly) =>
    /\ \A f \in Fields : f \in DOMAIN inputValue <=> FieldExists(f)
    /\ \A f \in Fields :
         f \in DOMAIN invalid <=>
           FieldExists(f) /\ Verdict(inputValue[f]) \in {"false", "message", "throws"}
    /\ \A f \in DOMAIN invalid :
         invalid[f] = [default |-> Verdict(inputValue[f]) \in {"false", "throws"},
                       value |-> inputValue[f]]

\* An edge has been removed and a label typed: one field fails and has its message,
\* another passes.
C37_Witness ==
  /\ validate.enabled
  /\ ~readonly
  /\ edgeId > Cardinality(DOMAIN edgeIdToTransition)
  /\ DOMAIN invalid # {}
  /\ DOMAIN inputValue \ DOMAIN invalid # {}
  /\ \E f \in DOMAIN inputValue : inputValue[f] # 0

\* ------------------------------------------------------------------ stepping
\* The node the stepper is on, its outgoing transitions (none when it is no node of
\* the graph), and those whose condition is true on the first symbols of the inputs.
Cur == CHOOSE k \in currentNode : TRUE
Outgoing == IF Cur \in DOMAIN nodes THEN nodes[Cur].transitions ELSE <<>>
AllParse == \A i \in DOMAIN Outgoing : parse(heap[Outgoing[i]].label) # {}
HaveInput == \A v \in variables : inputs[v] # <<>>
TrueIdx ==
  {i \in DOMAIN Outgoing :
     /\ HaveInput
     /\ parse(heap[Outgoing[i]].label) # {}
     /\ evaluateBooleanExpression(CHOOSE e \in parse(heap[Outgoing[i]].label) : TRUE,
                                  Context)}

\* step() from a current node whose outgoing labels are all conditions: with exactly
\* one true condition the stepper moves to its target and every input loses its
\* first symbol, otherwise nothing changes.
MovesOnUniqueTarget ==
  IF AllParse /\ Cardinality(TrueIdx) = 1
    THEN /\ currentNode' = {heap[Outgoing[CHOOSE i \in TrueIdx : TRUE]].to}
         /\ inputs' = [v \in variables |-> Tail(inputs[v])]
    ELSE UNCHANGED <<currentNode, inputs>>

\* C38: step() from the reset state sets the current node to the start node and
\* consumes no input; from a current node it moves to a target and removes exactly
\* the first symbol of every variable's input if and only if exactly one outgoing
\* transition's condition is true on the current first symbols; with zero or several
\* true conditions, or a variable without input, the current node and the inputs are
\* unchanged; and step() does not throw when the current node has been removed from
\* the graph.
C38_StepperSteps ==
  [][\/ /\ currentNode = {} => (currentNode' = start /\ inputs' = inputs)
        /\ currentNode # {} => MovesOnUniqueTarget
        /\ (currentNode # {} /\ Cur \notin DOMAIN nodes)
             => "step-TypeError" \notin notes' \ notes
     \/ ~Step]_vars

\* The part that holds: while the current node is a node of the graph, step() does
\* what C38 says.
C38_StepOnLiveNode ==
  [][\/ /\ currentNode = {} => (currentNode' = start /\ inputs' = inputs)
        /\ (currentNode # {} /\ Cur \in DOMAIN nodes)
             => (MovesOnUniqueTarget /\ "step-TypeError" \notin notes')
     \/ ~Step]_vars

\* ---------------------------------------------------- index-based round trip
\* No transition and no start of g refers to an id that is no node.
NoDangling(g) ==
  /\ g.start \subseteq DOMAIN g.nodes
  /\ \A n \in DOMAIN g.nodes : \A i \in DOMAIN g.nodes[n].transitions :
       g.heap[g.nodes[n].transitions[i]].to \in DOMAIN g.nodes

\* b is g with node keys[i] renamed node-(i - 1): as many nodes in the same order with
\* the same labels and position, each node's transitions in the same order with the
\* same destination and label, the same start node.
SameStructure(g, b) ==
  /\ b.keys = [i \in DOMAIN g.keys |-> i - 1]
  /\ DOMAIN b.nodes = {i - 1 : i \in DOMAIN g.keys}
  /\ b.start = UNION {IndexOf(g.keys, id) : id \in g.start}
  /\ \A i \in DOMAIN g.keys :
       LET n == g.nodes[g.keys[i]]
           m == b.nodes[i - 1]
       IN /\ m.label = n.label /\ m.innerLabel = n.innerLabel
          /\ m.x = n.x /\ m.y = n.y
          /\ Len(m.transitions) = Len(n.transitions)
          /\ \A j \in DOMAIN n.transitions :
               /\ {m.transitions[j].to} = IndexOf(g.keys, g.heap[n.transitions[j]].to)
               /\ m.transitions[j].label = g.heap[n.transitions[j]].label

\* Nothing but the offsets of transitions differs between g and b.
SameButOffsets(g, b) ==
  \A i \in DOMAIN g.keys :
    LET n == g.nodes[g.keys[i]]
        m == b.nodes[i - 1]
    IN /\ m.radius = n.radius
       /\ \A j \in DOMAIN n.transitions :
            m.transitions[j].rotation = g.heap[n.transitions[j]].rotation

\* C39: a state with no dangling reference that goes through
\* fsmStateToBackwardsCompatible and back through fsmStateFromBackwardsCompatible is
\* the same graph up to renaming each node to node-<index> - number and order of
\* nodes, labels and position of each node, source, destination, label and order of
\* each transition, start node - and only the curvature offset may differ.
C39_OnlyOffsetDiffers ==
  \A r \in legacy :
    NoDangling(r.of) => (SameStructure(r.of, r.back) /\ SameButOffsets(r.of, r.back))

\* C39 as it holds: the round trip keeps the structure (nodes in order with labels
\* and position, transitions in order with source, destination and label, start) up
\* to the renaming; an offset comes back as hypot(offset, offset), without its sign.
C39_RoundTripKeepsStructure ==
  \A r \in legacy :
    NoDangling(r.of) =>
      /\ SameStructure(r.of, r.back)
      /\ \A i \in DOMAIN r.of.keys :
           \A j \in DOMAIN r.of.nodes[r.of.keys[i]].transitions :
             LET t == r.of.heap[r.of.nodes[r.of.keys[i]].transitions[j]]
             IN r.back.nodes[i - 1].transitions[j].offset = Hypot(t.offset, t.offset)

\* A graph of two nodes whose ids are not their indices, with a start node and a
\* transition bowing to the negative side, went through the round trip: the nodes are
\* renamed and the offset came back positive.
C39_Witness ==
  \E r \in legacy :
    /\ r.of.keys = <<2, 0>>
    /\ r.of.start = {2}
    /\ r.back.start = {0}
    /\ r.of.heap[r.of.nodes[2].transitions[1]].offset < 0
    /\ r.back.nodes[0].transitions[1].offset > 0
    /\ r.back.nodes[0].transitions[1].to = 1

====
